---- MODULE Spec2Model ----
(***************************************************************************)
(* Sehat Saathi: the appointment lifecycle and the role authorization of   *)
(* the Express server (server/routes.ts, server/storage.ts,                *)
(* server/auth/jwt.ts, server/auth/middleware.ts, shared/schema.ts).       *)
(*                                                                         *)
(* Every route is one action: the middleware chain, the handler and the    *)
(* storage calls it makes.  The handlers of the appointment and            *)
(* prescription routes await only promises that are already resolved       *)
(* (MemStorage changes its maps at once and writes its files without       *)
(* awaiting them, jwt.verify is synchronous), so one request runs to its   *)
(* response before the next one starts.  Registration waits for            *)
(* bcrypt.hash and is two actions.  Further specifications cut two         *)
(* handlers at their awaits, follow the writes of appointments.json, and   *)
(* model the AuthProvider of the client (client/src/contexts).             *)
(*                                                                         *)
(* Text that the code matches against a regular expression is a sequence   *)
(* of one-character strings.  An optional value (undefined or null in the  *)
(* code) is a sequence of length 0 or 1.                                   *)
(***************************************************************************)
EXTENDS Integers, Sequences, FiniteSets, TLC

VARIABLES
    users,          \* MemStorage.users: id -> User
    appointments,   \* MemStorage.appointments: id -> Appointment
    prescriptions,  \* MemStorage.prescriptions: id -> Prescription
    now,            \* the server's clock, in seconds (Date.now() / 1000)
    ticks,          \* how often the clock has advanced
    req,            \* the request being answered, Idle between two requests
    res,            \* the response sent to it
    acked,          \* history: the appointments acknowledged so far
    before,         \* history: the store when that request arrived
    hashing,        \* the registrations waiting for bcrypt.hash
    plaintext,      \* history: the password each user registered with
    held,           \* a token or a header a client holds
    verdict,        \* what was last said of it, and when
    running,        \* the handlers that wait at an await
    disk,           \* appointments.json, its temporary file, the writes
    client          \* the AuthProvider of a browser tab and its localStorage

\* What only registration, login and the token checks use
authVars == <<hashing, plaintext, held, verdict>>

\* What only the interleaved handlers, the file writes and the client use
sideVars == <<running, disk, client>>

vars ==
    <<users, appointments, prescriptions, now, ticks, req, res, acked, before,
      hashing, plaintext, held, verdict, running, disk, client>>

----------------------------------------------------------------------------
(* Bounds of the model                                                      *)

\* Appointments and prescriptions the store may hold
MaxRecords == 1
\* Times the clock advances
MaxTicks == 1
\* Length of the longest clinicPhone tried
MaxPhoneLen == 21
\* Seconds the clock runs while one token is verified again and again
MaxClock == 3
\* Registrations that get as far as hashing the password
MaxRegistrations == 2

----------------------------------------------------------------------------
(* Optional values                                                          *)

None == <<>>
Some(v) == <<v>>
IsSome(o) == Len(o) = 1
Val(o) == o[1]

\* JS `a ?? b`
Coalesce(o, d) == IF IsSome(o) THEN Val(o) ELSE d

----------------------------------------------------------------------------
(* Characters                                                               *)

Digits == {"0", "1", "2", "3", "4", "5", "6", "7", "8", "9"}
Whitespace == {" "}

----------------------------------------------------------------------------
(* Tokens (server/auth/jwt.ts)                                              *)

\* JWT_EXPIRES_IN, '7d', in seconds
JWT_EXPIRES_IN == 604800

\* A part of an Authorization header that is not a JWT: a scheme name, an
\* empty part (two spaces in a row), any other text.
Word(w) == [kind |-> "word", text |-> w]

\* generateToken: the claims of user u, signed with JWT_SECRET at time t.
generateToken(u, t) ==
    [kind |-> "jwt", signedBy |-> "JWT_SECRET",
     id |-> u.id, email |-> u.email, role |-> u.role,
     specialization |-> u.specialization,
     exp |-> t + JWT_EXPIRES_IN]

\* A token somebody else made up: any claims, not signed with JWT_SECRET.
ForgedToken(u, t) == [generateToken(u, t) EXCEPT !.signedBy = "other"]

\* A verifyToken that never looks at the expiry
verifyTokenIgnoresExpiry(token, t) ==
    IF token.kind # "jwt" \/ token.signedBy # "JWT_SECRET"
    THEN [ok |-> FALSE, message |-> "Invalid token"]
    ELSE [ok |-> TRUE, decoded |-> token]

\* A verifyToken for which a token is still good at the second it expires
verifyTokenExpiredAtExp(token, t) ==
    IF token.kind # "jwt" \/ token.signedBy # "JWT_SECRET"
    THEN [ok |-> FALSE, message |-> "Invalid token"]
    ELSE IF t > token.exp
    THEN [ok |-> FALSE, message |-> "Token has expired"]
    ELSE [ok |-> TRUE, decoded |-> token]

\* verifyToken: jwt.verify decodes the token, checks the signature, then the
\* expiry (expired when the clock has reached exp); every failure is thrown
\* again as a plain Error carrying only a message.
verifyToken(token, t) ==
    IF token.kind # "jwt" \/ token.signedBy # "JWT_SECRET"
    THEN [ok |-> FALSE, message |-> "Invalid token"]
    ELSE IF t >= token.exp
    THEN [ok |-> FALSE, message |-> "Token has expired"]
    ELSE [ok |-> TRUE, decoded |-> token]

\* An extractTokenFromHeader that takes the second part whatever the scheme
extractTokenAnyScheme(authHeader) ==
    IF ~IsSome(authHeader) \/ Val(authHeader) = <<Word("")>>
    THEN None
    ELSE LET parts == Val(authHeader) IN
         IF Len(parts) = 2 THEN Some(parts[2])
         ELSE IF Len(parts) = 1 THEN Some(parts[1])
         ELSE None

\* extractTokenFromHeader: the header is None (absent) or Some(parts), parts
\* being what authHeader.split(' ') returns; the empty string splits into
\* one empty part.
extractTokenFromHeader(authHeader) ==
    IF ~IsSome(authHeader) \/ Val(authHeader) = <<Word("")>>
    THEN None
    ELSE LET parts == Val(authHeader) IN
         IF Len(parts) = 2 /\ parts[1] = Word("Bearer") THEN Some(parts[2])
         ELSE IF Len(parts) = 1 THEN Some(parts[1])
         ELSE None

----------------------------------------------------------------------------
(* Middleware (server/auth/middleware.ts)                                   *)

NoUser == [id |-> "", email |-> "", role |-> "", specialization |-> None]

Reject(code, errorCode) ==
    [next |-> FALSE, status |-> code, error |-> errorCode, user |-> NoUser]

\* authenticateToken: 401 without a token; 401 when verifyToken throws (its
\* errors are plain Errors, so the code is TOKEN_VERIFICATION_FAILED);
\* otherwise req.user is set and next() is called.
authenticateToken(authHeader, t) ==
    LET token == extractTokenFromHeader(authHeader) IN
    IF ~IsSome(token) \/ Val(token) = Word("")
    THEN Reject(401, "MISSING_TOKEN")
    ELSE LET v == verifyToken(Val(token), t) IN
         IF ~v.ok
         THEN Reject(401, "TOKEN_VERIFICATION_FAILED")
         ELSE [next |-> TRUE, status |-> 200, error |-> "",
               user |-> [id |-> v.decoded.id, email |-> v.decoded.email,
                         role |-> v.decoded.role,
                         specialization |-> v.decoded.specialization]]

\* A requireRole that turns away patients and nobody else
requireRoleOnlyBlocksPatients(m, allowedRoles) ==
    IF ~m.next THEN m
    ELSE IF m.user.role = "patient"
    THEN Reject(403, "INSUFFICIENT_PERMISSIONS")
    ELSE m

\* requireRole, run after authenticateToken (m is what that left): 403 when
\* the role is empty or not one of allowedRoles.
requireRole(m, allowedRoles) ==
    IF ~m.next THEN m
    ELSE IF m.user.role = "" \/ m.user.role \notin allowedRoles
    THEN Reject(403, "INSUFFICIENT_PERMISSIONS")
    ELSE m

\* authenticateAndAuthorize: [authenticateToken, requireRole(allowedRoles)]
authenticateAndAuthorize(authHeader, t, allowedRoles) ==
    requireRole(authenticateToken(authHeader, t), allowedRoles)

----------------------------------------------------------------------------
(* Validation (shared/schema.ts, server/routes.ts)                          *)

\* A pattern that takes any two digits as the hour: /^[0-2]\d:[0-5]\d$/
TimeSlotOkHoursTo29(v) ==
    /\ Len(v) = 5
    /\ v[1] \in {"0", "1", "2"} /\ v[2] \in Digits
    /\ v[3] = ":"
    /\ v[4] \in {"0", "1", "2", "3", "4", "5"}
    /\ v[5] \in Digits

\* /^(?:[01]\d|2[0-3]):[0-5]\d$/
TimeSlotOk(v) ==
    /\ Len(v) = 5
    /\ \/ v[1] \in {"0", "1"} /\ v[2] \in Digits
       \/ v[1] = "2" /\ v[2] \in {"0", "1", "2", "3"}
    /\ v[3] = ":"
    /\ v[4] \in {"0", "1", "2", "3", "4", "5"}
    /\ v[5] \in Digits

\* A pattern without the upper limit: /^[+\d][\d\s\-()]{5,}$/
PhoneOkAnyLength(p) ==
    /\ Len(p) >= 6
    /\ p[1] \in Digits \cup {"+"}
    /\ \A i \in 2..Len(p) : p[i] \in Digits \cup Whitespace \cup {"-", "(", ")"}

\* /^[+\d][\d\s\-()]{5,19}$/
PhoneOk(p) ==
    /\ Len(p) >= 6
    /\ Len(p) <= 20
    /\ p[1] \in Digits \cup {"+"}
    /\ \A i \in 2..Len(p) : p[i] \in Digits \cup Whitespace \cup {"-", "(", ")"}

RECURSIVE TrimStart(_)
TrimStart(r) ==
    IF Len(r) > 0 /\ r[1] \in Whitespace THEN TrimStart(Tail(r)) ELSE r

RECURSIVE TrimEnd(_)
TrimEnd(r) ==
    IF Len(r) > 0 /\ r[Len(r)] \in Whitespace
    THEN TrimEnd(SubSeq(r, 1, Len(r) - 1)) ELSE r

\* String.prototype.trim
Trim(r) == TrimEnd(TrimStart(r))

\* reason: optional; !r || r.trim().length >= 5, and !r || r.length <= 300
ReasonOk(reason) ==
    \/ ~IsSome(reason)
    \/ Len(Val(reason)) = 0
    \/ Len(Trim(Val(reason))) >= 5 /\ Len(Val(reason)) <= 300

\* A date check without the minute of tolerance
DateOkNoTolerance(d, t) == d >= t * 1000

\* date: d.getTime() >= Date.now() - 60000, both in milliseconds
DateOk(d, t) == d >= t * 1000 - 60000

\* insertAppointmentSchema.parse(body), the date already converted: the
\* parsed data (every column of the table but id and createdAt is a key of
\* the schema and is kept), or a ZodError.
insertAppointmentSchemaParse(body, t) ==
    IF /\ IsSome(body.date)
       /\ DateOk(Val(body.date), t)
       /\ TimeSlotOk(body.timeSlot)
       /\ ReasonOk(body.reason)
    THEN [ok |-> TRUE, data |-> body]
    ELSE [ok |-> FALSE, data |-> body]

----------------------------------------------------------------------------
(* Storage (server/storage.ts)                                              *)

\* randomUUID: the n-th appointment id, never the id of anything else
ApptUUIDs == <<"A1", "A2", "A3", "A4">>
randomUUID(appts) == ApptUUIDs[Cardinality(DOMAIN appts) + 1]

\* The value JS leaves in a field assigned undefined
Undefined == "undefined"

\* MemStorage.getAppointment
getAppointment(appts, id) ==
    IF id \in DOMAIN appts THEN Some(appts[id]) ELSE None

\* MemStorage.createAppointment: the new record; createdAt, which nothing
\* reads, is left out.
NewAppointment(id, insertAppointment) ==
    [id |-> id,
     doctorId |-> insertAppointment.doctorId,
     patientId |-> insertAppointment.patientId,
     date |-> Val(insertAppointment.date),
     timeSlot |-> insertAppointment.timeSlot,
     status |-> IF IsSome(insertAppointment.status)
                   /\ Val(insertAppointment.status) # ""
                THEN Val(insertAppointment.status) ELSE "pending",
     reason |-> IF IsSome(insertAppointment.reason)
                   /\ Len(Val(insertAppointment.reason)) > 0
                THEN insertAppointment.reason ELSE None,
     doctorComment |-> insertAppointment.doctorComment,
     clinicAddress |-> insertAppointment.clinicAddress,
     clinicPhone |-> insertAppointment.clinicPhone,
     patientNotified |-> Coalesce(insertAppointment.patientNotified, FALSE)]

createAppointment(appts, insertAppointment) ==
    LET id == randomUUID(appts) IN
    [i \in DOMAIN appts \cup {id} |->
        IF i = id THEN NewAppointment(id, insertAppointment) ELSE appts[i]]

\* insertPrescriptionSchema.parse(body): doctorId, patientId and medicines
\* are required; medicines is a jsonb column, any JSON value passes.
insertPrescriptionSchemaParse(body) ==
    [ok |-> IsSome(body.medicines), data |-> body]

RxUUIDs == <<"R1", "R2", "R3", "R4">>

\* A createPrescription that gives every prescription the same id
createPrescriptionSameId(rxs, insertPrescription) ==
    LET id == RxUUIDs[1] IN
    [i \in DOMAIN rxs \cup {id} |->
        IF i = id
        THEN [id |-> id,
              doctorId |-> insertPrescription.doctorId,
              patientId |-> insertPrescription.patientId,
              appointmentId |-> None,
              medicines |-> Val(insertPrescription.medicines),
              notes |-> None]
        ELSE rxs[i]]

\* MemStorage.createPrescription; createdAt is left out.
createPrescription(rxs, insertPrescription) ==
    LET id == RxUUIDs[Cardinality(DOMAIN rxs) + 1] IN
    [i \in DOMAIN rxs \cup {id} |->
        IF i = id
        THEN [id |-> id,
              doctorId |-> insertPrescription.doctorId,
              patientId |-> insertPrescription.patientId,
              appointmentId |->
                  IF IsSome(insertPrescription.appointmentId)
                     /\ Val(insertPrescription.appointmentId) # ""
                  THEN insertPrescription.appointmentId ELSE None,
              medicines |-> Val(insertPrescription.medicines),
              notes |-> IF IsSome(insertPrescription.notes)
                           /\ Val(insertPrescription.notes) # ""
                        THEN insertPrescription.notes ELSE None]
        ELSE rxs[i]]

\* The extra argument of updateAppointmentStatus: a field that is None is
\* undefined.
NoExtra ==
    [doctorComment |-> None, clinicAddress |-> None, clinicPhone |-> None,
     patientNotified |-> None]

\* An update that assigns the three text fields whether they are given or not
UpdatedAppointmentAssignsAll(a, status, extra) ==
    [a EXCEPT
        !.status = Coalesce(status, Undefined),
        !.doctorComment = extra.doctorComment,
        !.clinicAddress = extra.clinicAddress,
        !.clinicPhone = extra.clinicPhone,
        !.patientNotified =
            IF IsSome(extra.patientNotified) THEN Val(extra.patientNotified) ELSE @]

\* MemStorage.updateAppointmentStatus on an existing appointment: the record
\* after the assignments.
UpdatedAppointment(a, status, extra) ==
    [a EXCEPT
        !.status = Coalesce(status, Undefined),
        !.doctorComment =
            IF IsSome(extra.doctorComment) THEN extra.doctorComment ELSE @,
        !.clinicAddress =
            IF IsSome(extra.clinicAddress) THEN extra.clinicAddress ELSE @,
        !.clinicPhone =
            IF IsSome(extra.clinicPhone) THEN extra.clinicPhone ELSE @,
        !.patientNotified =
            IF IsSome(extra.patientNotified) THEN Val(extra.patientNotified) ELSE @]

\* MemStorage.updateAppointmentStatus: the store after the call (unchanged
\* when the id is unknown, and the call then returns undefined).
updateAppointmentStatus(appts, id, status, extra) ==
    IF id \in DOMAIN appts
    THEN [appts EXCEPT ![id] = UpdatedAppointment(appts[id], status, extra)]
    ELSE appts

----------------------------------------------------------------------------
(* The store at start-up                                                    *)

\* bcrypt.hash(password, 10) of bcryptjs: the version and cost, then the
\* digest, which only the first 72 bytes of the password decide (standing
\* for the digest here).  The salt is left out.
bcryptHash(password) ==
    <<"$", "2", "a", "$", "1", "0", "$">>
    \o SubSeq(password, 1, IF Len(password) < 72 THEN Len(password) ELSE 72)

\* bcrypt.compare(password, hash)
bcryptCompare(password, hash) == bcryptHash(password) = hash

\* "password123" and "anuj123", the passwords seedData gives
SeedPassword == <<"p", "a", "s", "s", "w", "o", "r", "d", "1", "2", "3">>
AnujPassword == <<"a", "n", "u", "j", "1", "2", "3">>
\* A password registerSchema accepts
StrongPassword == <<"S", "e", "h", "a", "t", "@", "1", "2">>

Doctor(id, email, specialization) ==
    [id |-> id, email |-> email, role |-> "doctor",
     specialization |-> Some(specialization), createdAt |-> 0,
     password |-> bcryptHash(SeedPassword)]

\* seedData: three doctors and one patient.  U1 and U2 are accounts
\* registered since (registerSchema accepts any string as role) and read
\* back by loadAll.
InitialUsers ==
    [i \in {"D1", "D2", "D3", "P1", "U1", "U2"} |->
        CASE i = "D1" -> Doctor(i, "priya.sharma@sehat.com", "General Medicine")
          [] i = "D2" -> Doctor(i, "raj.patel@sehat.com", "Pediatrics")
          [] i = "D3" -> [Doctor(i, "anuj@sehat.com", "Gynecology")
                             EXCEPT !.password = bcryptHash(AnujPassword)]
          [] i = "P1" -> [id |-> i, email |-> "raj.kumar@patient.com",
                          role |-> "patient", specialization |-> None,
                          createdAt |-> 0,
                          password |-> bcryptHash(SeedPassword)]
          [] i = "U1" -> [id |-> i, email |-> "admin@sehat.com",
                          role |-> "admin", specialization |-> None,
                          createdAt |-> 0,
                          password |-> bcryptHash(StrongPassword)]
          [] i = "U2" -> [id |-> i, email |-> "norole@sehat.com",
                          role |-> "", specialization |-> None,
                          createdAt |-> 0,
                          password |-> bcryptHash(StrongPassword)]]

\* The passwords those accounts were made with
InitialPlaintext ==
    [i \in DOMAIN InitialUsers |->
        CASE i \in {"D1", "D2", "P1"} -> SeedPassword
          [] i = "D3" -> AnujPassword
          [] OTHER -> StrongPassword]

----------------------------------------------------------------------------
(* Requests                                                                 *)

\* The users whose tokens the requests carry (D3 behaves as D2 does)
Callers == {"D1", "D2", "P1", "U1", "U2"}

\* The tokens a client of user u can hold at time t: the oldest one the
\* server can have issued to u and the newest one.
TokensOf(u, t) == {generateToken(u, u.createdAt), generateToken(u, t)}

Bearer(tok) == Some(<<Word("Bearer"), tok>>)

\* Authorization headers that carry a token the server issued: "Bearer
\* <token>" and, for one of them, the bare token
IssuedHeaders ==
    {Bearer(tok) : tok \in UNION {TokensOf(users[u], now) : u \in Callers}}
    \cup {Some(<<generateToken(users["D1"], now)>>)}

\* Authorization headers without a token, or with one that is not the
\* server's: absent, empty, another scheme, three parts, "Bearer " with
\* nothing behind it, text that is no JWT, a forged JWT.
BadHeaders ==
    {None,
     Some(<<Word("")>>),
     Some(<<Word("Basic"), generateToken(users["D1"], now)>>),
     Some(<<Word("Bearer"), generateToken(users["D1"], now), Word("x")>>),
     Some(<<Word("Bearer"), Word("")>>),
     Some(<<Word("Bearer"), Word("abc.def")>>),
     Bearer(ForgedToken(users["D1"], now)),
     Bearer(ForgedToken(users["P1"], now))}

Headers == IssuedHeaders \cup BadHeaders

GoodPhone == <<"+", "9", "1", "-", "9", "8", "7", "6", "5">>
ShortPhone == <<"1", "2", "3", "4", "5">>
LetterPhone == <<"c", "a", "l", "l", " ", "m", "e">>

StatusInputs ==
    {Some("pending"), Some("confirmed"), Some("rejected"),
     Some("completed"), Some("cancelled")}

PatchBody(status, doctorComment, clinicAddress, clinicPhone) ==
    [status |-> status, doctorComment |-> doctorComment,
     clinicAddress |-> clinicAddress, clinicPhone |-> clinicPhone]

\* Bodies of PATCH /api/appointments/:id/status
PatchBodies ==
    {PatchBody(s, None, None, None) : s \in StatusInputs}
    \cup {PatchBody(s, Some("Bring reports"), Some("Clinic 1"), Some(GoodPhone)) :
            s \in {Some("confirmed"), Some("rejected")}}
    \cup {PatchBody(Some("confirmed"), None, None, Some(p)) :
            p \in {ShortPhone, LetterPhone}}

GoodSlot == <<"0", "9", ":", "0", "0">>
BadSlot == <<"2", "5", ":", "0", "0">>
GoodReason == <<"f", "e", "v", "e", "r", " ", "3", "d">>
ShortReason == <<" ", "f", "l", "u", " ">>

ApptBody(patientId, doctorId, date, timeSlot, reason) ==
    [patientId |-> patientId, doctorId |-> doctorId, date |-> date,
     timeSlot |-> timeSlot, reason |-> reason, status |-> None,
     doctorComment |-> None, clinicAddress |-> None, clinicPhone |-> None,
     patientNotified |-> None]

\* Bodies of POST /api/appointments: date is None when the string does not
\* parse as a date, else its time in milliseconds.
ApptBodies ==
    LET one == ApptBody("P1", "D1", Some(2000000000), GoodSlot, Some(GoodReason))
        ok == {one, ApptBody("P2", "D1", Some(2000000000), GoodSlot, None)}
    IN  ok
        \cup {[b EXCEPT !.status = Some("completed"),
                        !.patientNotified = Some(TRUE),
                        !.doctorComment = Some("Bring reports"),
                        !.clinicAddress = Some("Clinic 1"),
                        !.clinicPhone = Some(GoodPhone)] :
                b \in {b \in ok : b.patientId = "P1"}}
        \cup {[one EXCEPT !.status = Some("")],
              [one EXCEPT !.date = Some(now * 1000 - 60001)],
              [one EXCEPT !.reason = Some(ShortReason)],
              [one EXCEPT !.patientId = "P2", !.timeSlot = BadSlot],
              [one EXCEPT !.patientId = "P2", !.date = None]}

RxBody(doctorId, medicines) ==
    [doctorId |-> doctorId, patientId |-> "P1", appointmentId |-> None,
     medicines |-> medicines, notes |-> None]

\* Bodies of POST /api/prescriptions: medicines is None when the key is
\* missing.
RxBodies ==
    {RxBody(d, m) :
        d \in {"D1", "D2"},
        m \in {None, Some(<<>>),
               Some(<<[name |-> "Paracetamol", dosage |-> "500mg"]>>)}}
    \cup {RxBody("D1", Some(<<[name |-> "", dosage |-> "500mg"]>>))}

\* The :id of a request: a stored appointment or an id nothing has
ApptIdInputs == DOMAIN appointments \cup {"A0"}

NoBody == [none |-> TRUE]
Request(op, authorization, id, body) ==
    [op |-> op, authorization |-> authorization, id |-> id, body |-> body]
Response(status, error) == [status |-> status, error |-> error]

----------------------------------------------------------------------------
(* Routes (server/routes.ts): the store and the response each one leaves    *)

Outcome(appts, status, error) ==
    [appointments |-> appts, res |-> Response(status, error)]

\* A POST /api/appointments that lets a patient book for anybody
postAppointmentAnyPatient(appts, t, authorization, body) ==
    LET m == authenticateToken(authorization, t) IN
    IF ~m.next THEN Outcome(appts, m.status, m.error)
    ELSE IF ~IsSome(body.date)
    THEN Outcome(appts, 400, "Invalid date format")
    ELSE LET parsed == insertAppointmentSchemaParse(body, t) IN
         IF ~parsed.ok THEN Outcome(appts, 400, "Validation error")
         ELSE Outcome(createAppointment(appts, parsed.data), 201, "")

\* POST /api/appointments
postAppointment(appts, t, authorization, body) ==
    LET m == authenticateToken(authorization, t) IN
    IF ~m.next THEN Outcome(appts, m.status, m.error)
    ELSE IF ~IsSome(body.date)
    THEN Outcome(appts, 400, "Invalid date format")
    ELSE LET parsed == insertAppointmentSchemaParse(body, t) IN
         IF ~parsed.ok THEN Outcome(appts, 400, "Validation error")
         ELSE IF m.user.role = "patient" /\ parsed.data.patientId # m.user.id
         THEN Outcome(appts, 403, "You can only book appointments for yourself.")
         ELSE Outcome(createAppointment(appts, parsed.data), 201, "")

\* A PATCH /api/appointments/:id/status that never compares doctorId with
\* the caller
patchAppointmentStatusAnyDoctor(appts, t, authorization, id, body) ==
    LET m == authenticateAndAuthorize(authorization, t, {"doctor"}) IN
    IF ~m.next THEN Outcome(appts, m.status, m.error)
    ELSE IF /\ IsSome(body.clinicPhone)
            /\ Len(Val(body.clinicPhone)) > 0
            /\ ~PhoneOk(Val(body.clinicPhone))
    THEN Outcome(appts, 400, "Invalid clinicPhone format")
    ELSE LET updated ==
                updateAppointmentStatus(appts, id, body.status,
                    [doctorComment |-> body.doctorComment,
                     clinicAddress |-> body.clinicAddress,
                     clinicPhone |-> body.clinicPhone,
                     patientNotified |-> None])
         IN  IF id \notin DOMAIN appts
             THEN Outcome(updated, 404, "Appointment not found")
             ELSE Outcome(updated, 200, "")

\* PATCH /api/appointments/:id/status
patchAppointmentStatus(appts, t, authorization, id, body) ==
    LET m == authenticateAndAuthorize(authorization, t, {"doctor"}) IN
    IF ~m.next THEN Outcome(appts, m.status, m.error)
    ELSE IF /\ IsSome(body.clinicPhone)
            /\ Len(Val(body.clinicPhone)) > 0
            /\ ~PhoneOk(Val(body.clinicPhone))
    THEN Outcome(appts, 400, "Invalid clinicPhone format")
    ELSE LET updated ==
                updateAppointmentStatus(appts, id, body.status,
                    [doctorComment |-> body.doctorComment,
                     clinicAddress |-> body.clinicAddress,
                     clinicPhone |-> body.clinicPhone,
                     patientNotified |-> None])
         IN  IF id \notin DOMAIN appts
             THEN Outcome(updated, 404, "Appointment not found")
             ELSE IF updated[id].doctorId # m.user.id
             THEN Outcome(updated, 403,
                     "You can only update the status of your own appointments.")
             ELSE Outcome(updated, 200, "")

\* A POST /api/appointments/:id/ack open to the appointment's doctor as well
postAppointmentAckEitherParty(appts, t, authorization, id) ==
    LET m == authenticateToken(authorization, t)
        appointment == getAppointment(appts, id)
    IN  IF ~m.next THEN Outcome(appts, m.status, m.error)
        ELSE IF ~IsSome(appointment)
        THEN Outcome(appts, 404, "Appointment not found")
        ELSE IF /\ Val(appointment).patientId # m.user.id
                /\ Val(appointment).doctorId # m.user.id
        THEN Outcome(appts, 403, "Not allowed")
        ELSE Outcome(
                updateAppointmentStatus(appts, id, Some(Val(appointment).status),
                    [NoExtra EXCEPT !.patientNotified = Some(TRUE)]),
                200, "")

\* A POST /api/appointments/:id/ack that refuses an appointment already
\* acknowledged
postAppointmentAckOnce(appts, t, authorization, id) ==
    LET m == authenticateToken(authorization, t)
        appointment == getAppointment(appts, id)
    IN  IF ~m.next THEN Outcome(appts, m.status, m.error)
        ELSE IF ~IsSome(appointment)
        THEN Outcome(appts, 404, "Appointment not found")
        ELSE IF Val(appointment).patientId # m.user.id
        THEN Outcome(appts, 403, "Not allowed")
        ELSE IF Val(appointment).patientNotified
        THEN Outcome(appts, 409, "Already acknowledged")
        ELSE Outcome(
                updateAppointmentStatus(appts, id, Some(Val(appointment).status),
                    [NoExtra EXCEPT !.patientNotified = Some(TRUE)]),
                200, "")

\* POST /api/appointments/:id/ack
postAppointmentAck(appts, t, authorization, id) ==
    LET m == authenticateToken(authorization, t)
        appointment == getAppointment(appts, id)
    IN  IF ~m.next THEN Outcome(appts, m.status, m.error)
        ELSE IF ~IsSome(appointment)
        THEN Outcome(appts, 404, "Appointment not found")
        ELSE IF Val(appointment).patientId # m.user.id
        THEN Outcome(appts, 403, "Not allowed")
        ELSE Outcome(
                updateAppointmentStatus(appts, id, Some(Val(appointment).status),
                    [NoExtra EXCEPT !.patientNotified = Some(TRUE)]),
                200, "")

\* A POST /api/prescriptions that never compares doctorId with the caller
postPrescriptionAnyDoctor(rxs, t, authorization, body) ==
    LET m == authenticateAndAuthorize(authorization, t, {"doctor"}) IN
    IF ~m.next THEN [prescriptions |-> rxs, res |-> Response(m.status, m.error)]
    ELSE LET parsed == insertPrescriptionSchemaParse(body) IN
         IF ~parsed.ok
         THEN [prescriptions |-> rxs, res |-> Response(400, "Validation error")]
         ELSE [prescriptions |-> createPrescription(rxs, parsed.data),
               res |-> Response(201, "")]

\* POST /api/prescriptions: the prescriptions and the response it leaves
postPrescription(rxs, t, authorization, body) ==
    LET m == authenticateAndAuthorize(authorization, t, {"doctor"}) IN
    IF ~m.next THEN [prescriptions |-> rxs, res |-> Response(m.status, m.error)]
    ELSE LET parsed == insertPrescriptionSchemaParse(body) IN
         IF ~parsed.ok
         THEN [prescriptions |-> rxs, res |-> Response(400, "Validation error")]
         ELSE IF parsed.data.doctorId # m.user.id
         THEN [prescriptions |-> rxs,
               res |-> Response(403,
                   "You can only create prescriptions for your own consultations.")]
         ELSE [prescriptions |-> createPrescription(rxs, parsed.data),
               res |-> Response(201, "")]

\* GET /api/auth/me
getMe(us, t, authorization) ==
    LET m == authenticateToken(authorization, t) IN
    IF ~m.next THEN Response(m.status, m.error)
    ELSE IF m.user.id \notin DOMAIN us THEN Response(404, "User not found")
    ELSE Response(200, "")

----------------------------------------------------------------------------
(* The state machine                                                        *)

OpMe == "GET /api/auth/me"
OpCreate == "POST /api/appointments"
OpPatch == "PATCH /api/appointments/:id/status"
OpAck == "POST /api/appointments/:id/ack"
OpRx == "POST /api/prescriptions"

Idle == Request("", None, "", NoBody)
NoResponse == Response(0, "")
Empty == [i \in {} |-> NoBody]
Store(us, appts, rxs, acks) ==
    [users |-> us, appointments |-> appts, prescriptions |-> rxs,
     acked |-> acks]
NoStore == Store(Empty, Empty, Empty, {})

Records == Cardinality(DOMAIN appointments) + Cardinality(DOMAIN prescriptions)

NoToken == Word("")
NoVerdict == [at |-> 0 - 1, result |-> [ok |-> FALSE, message |-> ""]]

\* No registration in progress, no token under test
\* A handler that is not running, a write that was never started
NoTask == [pc |-> "none"]
NoTasks == [ack |-> NoTask, patch |-> NoTask]
NoDisk ==
    [file |-> <<>>, tmp |-> None, writes |-> <<>>, started |-> 0,
     failed |-> FALSE]
NoClient == [mounted |-> FALSE]

\* No interleaved handler, no write in flight, no browser
SideInit ==
    /\ running = NoTasks
    /\ disk = NoDisk
    /\ client = NoClient

AuthInit ==
    /\ hashing = <<>>
    /\ plaintext = InitialPlaintext
    /\ held = NoToken
    /\ verdict = NoVerdict

\* The server once started on a data directory that holds the accounts of
\* InitialUsers and no appointment or prescription yet.
Init ==
    /\ users = InitialUsers
    /\ appointments = Empty
    /\ prescriptions = Empty
    /\ now = 0
    /\ ticks = 0
    /\ req = Idle
    /\ res = NoResponse
    /\ acked = {}
    /\ before = NoStore
    /\ AuthInit
    /\ SideInit

\* A request arrives while the server is idle.
Arrives ==
    /\ req = Idle
    /\ before' = Store(users, appointments, prescriptions, acked)

Me ==
    /\ Arrives
    /\ \E h \in Headers :
           /\ res' = getMe(users, now, h)
           /\ req' = Request(OpMe, h, "", NoBody)
    /\ UNCHANGED <<users, appointments, prescriptions, now, ticks, acked>>
    /\ UNCHANGED authVars
    /\ UNCHANGED sideVars

\* The body is looked at by the handler only: a request the middleware
\* answers is recorded without one.
CreateAppointment ==
    /\ Arrives
    /\ \E h \in Headers :
       \E body \in IF authenticateToken(h, now).next THEN ApptBodies ELSE {NoBody} :
           LET out == postAppointment(appointments, now, h, body) IN
           /\ out.appointments # appointments => Records < MaxRecords
           /\ appointments' = out.appointments
           /\ res' = out.res
           /\ req' = Request(OpCreate, h, "", body)
    /\ UNCHANGED <<users, prescriptions, now, ticks, acked>>
    /\ UNCHANGED authVars
    /\ UNCHANGED sideVars

PatchStatus ==
    /\ Arrives
    /\ \E h \in Headers, id \in ApptIdInputs :
       \E body \in IF authenticateAndAuthorize(h, now, {"doctor"}).next
                    THEN PatchBodies ELSE {NoBody} :
           LET out == patchAppointmentStatus(appointments, now, h, id, body) IN
           /\ appointments' = out.appointments
           /\ res' = out.res
           /\ req' = Request(OpPatch, h, id, body)
    /\ UNCHANGED <<users, prescriptions, now, ticks, acked>>
    /\ UNCHANGED authVars
    /\ UNCHANGED sideVars

Acknowledge ==
    /\ Arrives
    /\ \E h \in Headers, id \in ApptIdInputs :
           LET out == postAppointmentAck(appointments, now, h, id) IN
           /\ appointments' = out.appointments
           /\ res' = out.res
           /\ req' = Request(OpAck, h, id, NoBody)
           /\ acked' = IF out.res.status = 200 THEN acked \cup {id} ELSE acked
    /\ UNCHANGED <<users, prescriptions, now, ticks>>
    /\ UNCHANGED authVars
    /\ UNCHANGED sideVars

CreatePrescription ==
    /\ Arrives
    /\ \E h \in Headers :
       \E body \in IF authenticateAndAuthorize(h, now, {"doctor"}).next
                    THEN RxBodies ELSE {NoBody} :
           LET out == postPrescription(prescriptions, now, h, body) IN
           /\ out.prescriptions # prescriptions => Records < MaxRecords
           /\ prescriptions' = out.prescriptions
           /\ res' = out.res
           /\ req' = Request(OpRx, h, "", body)
    /\ UNCHANGED <<users, appointments, now, ticks, acked>>
    /\ UNCHANGED authVars
    /\ UNCHANGED sideVars

\* The response has gone out; the server waits for the next request.
Finish ==
    /\ req # Idle
    /\ req' = Idle
    /\ res' = NoResponse
    /\ before' = NoStore
    /\ UNCHANGED <<users, appointments, prescriptions, now, ticks, acked>>
    /\ UNCHANGED authVars
    /\ UNCHANGED sideVars

\* Time passes between two requests.
Tick ==
    /\ req = Idle
    /\ ticks < MaxTicks
    /\ now' = now + JWT_EXPIRES_IN
    /\ ticks' = ticks + 1
    /\ UNCHANGED <<users, appointments, prescriptions, req, res, acked, before>>
    /\ UNCHANGED authVars
    /\ UNCHANGED sideVars

Next ==
    \/ Me
    \/ CreateAppointment
    \/ PatchStatus
    \/ Acknowledge
    \/ CreatePrescription
    \/ Finish
    \/ Tick

Spec == Init /\ [][Next]_vars

----------------------------------------------------------------------------
(* The phone check of PATCH status at its limits: doctor D1 sends phone     *)
(* after phone for the appointment patient P1 has with D1.                  *)

\* The phones tried: a first character and the same character after it, of
\* every length up to MaxPhoneLen
PhoneInputs ==
    {[i \in 1..n |-> IF i = 1 THEN first ELSE rest] :
        n \in 0..MaxPhoneLen,
        first \in {"+", "1", "-", "a"},
        rest \in {"2", " ", "(", "x"}}

PhoneInit ==
    /\ users = InitialUsers
    /\ appointments =
          createAppointment(Empty,
              ApptBody("P1", "D1", Some(2000000000), GoodSlot, Some(GoodReason)))
    /\ prescriptions = Empty
    /\ now = 0
    /\ ticks = 0
    /\ req = Idle
    /\ res = NoResponse
    /\ acked = {}
    /\ before = NoStore
    /\ AuthInit
    /\ SideInit

PatchPhone ==
    /\ Arrives
    /\ \E p \in PhoneInputs, id \in DOMAIN appointments :
           LET h == Bearer(generateToken(users["D1"], now))
               body == PatchBody(Some("confirmed"), None, None, Some(p))
               out == patchAppointmentStatus(appointments, now, h, id, body)
           IN  /\ appointments' = out.appointments
               /\ res' = out.res
               /\ req' = Request(OpPatch, h, id, body)
    /\ UNCHANGED <<users, prescriptions, now, ticks, acked>>
    /\ UNCHANGED authVars
    /\ UNCHANGED sideVars

PhoneNext ==
    \/ PatchPhone
    \/ Finish

PhoneSpec == PhoneInit /\ [][PhoneNext]_vars

----------------------------------------------------------------------------
(* The date check of POST /api/appointments at its limits                   *)

\* Milliseconds between the server's clock and the date that is posted
DateOffsets ==
    {-120000, -60003, -60002, -60001, -60000, -59999, -59998, -1, 0, 1,
     60000, 86400000}

PostDated ==
    /\ Arrives
    /\ \E u \in {"P1", "D1"}, off \in DateOffsets :
           LET h == Bearer(generateToken(users[u], now))
               body == ApptBody("P1", "D1", Some(now * 1000 + off), GoodSlot,
                                Some(GoodReason))
               out == postAppointment(appointments, now, h, body)
           IN  /\ out.appointments # appointments => Records < MaxRecords
               /\ appointments' = out.appointments
               /\ res' = out.res
               /\ req' = Request(OpCreate, h, "", body)
    /\ UNCHANGED <<users, prescriptions, now, ticks, acked>>
    /\ UNCHANGED authVars
    /\ UNCHANGED sideVars

DateNext ==
    \/ PostDated
    \/ Finish
    \/ Tick

DateSpec == Init /\ [][DateNext]_vars

----------------------------------------------------------------------------
(* The timeSlot check of POST /api/appointments                             *)

\* The slots tried: every hour and minute made of the digits below, and text
\* of another shape (one digit for the hour, for the minute, a third digit,
\* no colon, another separator, nothing, letters, blanks around the time)
SlotInputs ==
    {<<h1, h2, ":", m1, m2>> :
        h1 \in {"0", "1", "2", "3"}, h2 \in {"0", "3", "4", "5", "9"},
        m1 \in {"0", "5", "6"}, m2 \in {"0", "9"}}
    \cup {<<"1", "2", ":", "6", "0">>,
          <<"9", ":", "0", "0">>,
          <<"0", "9", ":", "0">>,
          <<"0", "9", ":", "0", "0", "0">>,
          <<"0", "0", "9", ":", "0", "0">>,
          <<"0", "9", "0", "0">>,
          <<"0", "9", "0", "0", "0">>,
          <<"0", "9", "-", "0", "0">>,
          <<>>,
          <<"a", "b", ":", "c", "d">>,
          <<" ", "0", "9", ":", "0", "0">>,
          <<"0", "9", ":", "0", "0", " ">>}

PostSlot ==
    /\ Arrives
    /\ \E u \in {"P1", "D1"}, slot \in SlotInputs :
           LET h == Bearer(generateToken(users[u], now))
               body == ApptBody("P1", "D1", Some(2000000000), slot,
                                Some(GoodReason))
               out == postAppointment(appointments, now, h, body)
           IN  /\ out.appointments # appointments => Records < MaxRecords
               /\ appointments' = out.appointments
               /\ res' = out.res
               /\ req' = Request(OpCreate, h, "", body)
    /\ UNCHANGED <<users, prescriptions, now, ticks, acked>>
    /\ UNCHANGED authVars
    /\ UNCHANGED sideVars

SlotNext ==
    \/ PostSlot
    \/ Finish

SlotSpec == Init /\ [][SlotNext]_vars

----------------------------------------------------------------------------
(* GET /api/appointments on a store that holds several appointments         *)

\* Most appointments the store holds when the listings start
MaxListed == 2

\* Array.from(this.appointments.values()): the appointments in the order
\* they were put in the Map
AppointmentValues(appts) ==
    LET ids == SelectSeq(ApptUUIDs, LAMBDA i : i \in DOMAIN appts)
    IN  [k \in 1..Len(ids) |-> appts[ids[k]]]

\* A getAppointmentsByDoctor that does not filter
getAppointmentsByDoctorAll(appts, doctorId) == AppointmentValues(appts)

\* MemStorage.getAppointmentsByDoctor
getAppointmentsByDoctor(appts, doctorId) ==
    SelectSeq(AppointmentValues(appts), LAMBDA a : a.doctorId = doctorId)

\* MemStorage.getAppointmentsByUser
getAppointmentsByUser(appts, userId) ==
    SelectSeq(AppointmentValues(appts), LAMBDA a : a.patientId = userId)

\* MemStorage.getUser
getUser(us, id) == IF id \in DOMAIN us THEN Some(us[id]) ELSE None

\* A response that carries a list
Listing(status, error, items) ==
    [status |-> status, error |-> error, listed |-> items]

\* What the listings add to a record: the doctor (id and specialization)
\* and the patient (id), null when there is no such user
WithDetails(us, record) ==
    LET doctor == getUser(us, record.doctorId)
        patient == getUser(us, record.patientId)
    IN  [item |-> record,
         doctor |-> IF IsSome(doctor)
                    THEN Some([id |-> Val(doctor).id,
                               specialization |-> Val(doctor).specialization])
                    ELSE None,
         patient |-> IF IsSome(patient) THEN Some([id |-> Val(patient).id])
                     ELSE None]

\* GET /api/appointments: a doctor gets the appointments by doctorId, every
\* other caller those by patientId
getAppointments(us, appts, t, authorization) ==
    LET m == authenticateToken(authorization, t) IN
    IF ~m.next THEN Listing(m.status, m.error, <<>>)
    ELSE LET found == IF m.user.role = "doctor"
                      THEN getAppointmentsByDoctor(appts, m.user.id)
                      ELSE getAppointmentsByUser(appts, m.user.id)
         IN  Listing(200, "", [k \in 1..Len(found) |-> WithDetails(us, found[k])])

OpList == "GET /api/appointments"

\* The appointments that have been booked: patients with their doctors, a
\* doctor for a patient the server does not know, a doctor as the patient
\* of another doctor, the admin as a patient
Booked ==
    {ApptBody(p, d, Some(2000000000), GoodSlot, None) :
        p \in {"P1", "P2", "D1", "U1"}, d \in {"D1", "D2"}}

RECURSIVE CreateAll(_, _)
CreateAll(appts, bodies) ==
    IF bodies = <<>> THEN appts
    ELSE CreateAll(createAppointment(appts, Head(bodies)), Tail(bodies))

\* The stores that up to MaxListed different bookings leave
BookedStores ==
    {CreateAll(Empty, bodies) :
        bodies \in {b \in UNION {[1..k -> Booked] : k \in 0..MaxListed} :
                       \A i, j \in DOMAIN b : i # j => b[i] # b[j]}}

ListInit ==
    /\ users = InitialUsers
    /\ appointments \in BookedStores
    /\ prescriptions = Empty
    /\ now = 0
    /\ ticks = 0
    /\ req = Idle
    /\ res = NoResponse
    /\ acked = {}
    /\ before = NoStore
    /\ AuthInit
    /\ SideInit

ListAppointments ==
    /\ Arrives
    /\ \E h \in Headers :
           /\ res' = getAppointments(users, appointments, now, h)
           /\ req' = Request(OpList, h, "", NoBody)
    /\ UNCHANGED <<users, appointments, prescriptions, now, ticks, acked>>
    /\ UNCHANGED authVars
    /\ UNCHANGED sideVars

ListNext ==
    \/ ListAppointments
    \/ Finish
    \/ Tick

ListSpec == ListInit /\ [][ListNext]_vars

----------------------------------------------------------------------------
(* Prescriptions written one after the other and read back                  *)

\* Prescriptions the store may hold
MaxPrescriptions == 2

\* Array.from(this.prescriptions.values())
PrescriptionValues(rxs) ==
    LET ids == SelectSeq(RxUUIDs, LAMBDA i : i \in DOMAIN rxs)
    IN  [k \in 1..Len(ids) |-> rxs[ids[k]]]

\* MemStorage.getPrescriptionsByPatient
getPrescriptionsByPatient(rxs, patientId) ==
    SelectSeq(PrescriptionValues(rxs), LAMBDA r : r.patientId = patientId)

\* MemStorage.getPrescriptionsByDoctor
getPrescriptionsByDoctor(rxs, doctorId) ==
    SelectSeq(PrescriptionValues(rxs), LAMBDA r : r.doctorId = doctorId)

\* GET /api/prescriptions: nothing for a caller who is neither patient nor
\* doctor
getPrescriptions(us, rxs, t, authorization) ==
    LET m == authenticateToken(authorization, t) IN
    IF ~m.next THEN Listing(m.status, m.error, <<>>)
    ELSE LET found == IF m.user.role = "patient"
                      THEN getPrescriptionsByPatient(rxs, m.user.id)
                      ELSE IF m.user.role = "doctor"
                      THEN getPrescriptionsByDoctor(rxs, m.user.id)
                      ELSE <<>>
         IN  Listing(200, "", [k \in 1..Len(found) |-> WithDetails(us, found[k])])

OpListRx == "GET /api/prescriptions"

\* The store holds the appointment patient P1 has with doctor D1
RxInit == PhoneInit

\* POST /api/prescriptions while the store has room
CreatePrescriptions ==
    /\ Arrives
    /\ \E h \in Headers :
       \E body \in IF authenticateAndAuthorize(h, now, {"doctor"}).next
                    THEN RxBodies ELSE {NoBody} :
           LET out == postPrescription(prescriptions, now, h, body) IN
           /\ out.prescriptions # prescriptions =>
                 Cardinality(DOMAIN prescriptions) < MaxPrescriptions
           /\ prescriptions' = out.prescriptions
           /\ res' = out.res
           /\ req' = Request(OpRx, h, "", body)
    /\ UNCHANGED <<users, appointments, now, ticks, acked>>
    /\ UNCHANGED authVars
    /\ UNCHANGED sideVars

ListPrescriptions ==
    /\ Arrives
    /\ \E h \in Headers :
           /\ res' = getPrescriptions(users, prescriptions, now, h)
           /\ req' = Request(OpListRx, h, "", NoBody)
    /\ UNCHANGED <<users, appointments, prescriptions, now, ticks, acked>>
    /\ UNCHANGED authVars
    /\ UNCHANGED sideVars

RxNext ==
    \/ CreatePrescriptions
    \/ ListPrescriptions
    \/ Acknowledge
    \/ Finish
    \/ Tick

RxSpec == RxInit /\ [][RxNext]_vars

----------------------------------------------------------------------------
(* Authorization headers as text, and extractTokenFromHeader on them        *)

\* Pieces of text a header is written with
MaxHeaderLen == 3

\* The text of a header is a sequence of pieces: the blank, the words
\* "Bearer" and "Basic", text that is no JWT, a token of the server.
Blank == Word(" ")
HeaderPieces ==
    {Blank, Word("Bearer"), Word("Basic"), Word("abc.def"),
     generateToken(InitialUsers["D1"], 0)}

HeaderTexts == UNION {[1..n -> HeaderPieces] : n \in 0..MaxHeaderLen}

\* The string some pieces written one after the other make: nothing is the
\* empty string, one piece is itself, several are text that is neither a
\* word above nor a JWT
Joined(pieces) ==
    IF pieces = <<>> THEN Word("")
    ELSE IF Len(pieces) = 1 THEN pieces[1]
    ELSE [kind |-> "text", pieces |-> pieces]

\* String.prototype.split(' ')
RECURSIVE Split(_)
Split(text) ==
    IF \A i \in 1..Len(text) : text[i] # Blank
    THEN <<Joined(text)>>
    ELSE LET k == CHOOSE i \in 1..Len(text) :
                     /\ text[i] = Blank
                     /\ \A j \in 1..(i - 1) : text[j] # Blank
         IN  <<Joined(SubSeq(text, 1, k - 1))>>
             \o Split(SubSeq(text, k + 1, Len(text)))

\* req.headers.authorization, absent or a text, as extractTokenFromHeader
\* sees it
SplitHeader(header) ==
    IF IsSome(header) THEN Some(Split(Val(header))) ELSE None

\* A client writes a header, or none
HeaderInit ==
    /\ users = InitialUsers
    /\ appointments = Empty
    /\ prescriptions = Empty
    /\ now = 0
    /\ ticks = 0
    /\ req = Idle
    /\ res = NoResponse
    /\ acked = {}
    /\ before = NoStore
    /\ hashing = <<>>
    /\ plaintext = InitialPlaintext
    /\ held \in {None} \cup {Some(text) : text \in HeaderTexts}
    /\ verdict = NoVerdict
    /\ SideInit

Extract ==
    /\ verdict' = [at |-> now,
                   result |-> extractTokenFromHeader(SplitHeader(held))]
    /\ UNCHANGED <<users, appointments, prescriptions, now, ticks, req, res,
                   acked, before, hashing, plaintext, held>>
    /\ UNCHANGED sideVars

HeaderNext == Extract

HeaderSpec == HeaderInit /\ [][HeaderNext]_vars

----------------------------------------------------------------------------
(* optionalAuthentication, on the route of server/auth/examples.ts          *)

\* What optionalAuthentication leaves: whether and how often it called
\* next(), the status of a response it sent itself (0: none), req.user
Passed(user) ==
    [next |-> TRUE, calls |-> 1, status |-> 0, error |-> "", user |-> user]

\* An optionalAuthentication that answers 401 to a token that fails
optionalAuthenticationStrict(authHeader, t) ==
    LET token == extractTokenFromHeader(authHeader) IN
    IF ~IsSome(token) \/ Val(token) = Word("")
    THEN Passed(None)
    ELSE LET v == verifyToken(Val(token), t) IN
         IF ~v.ok
         THEN [next |-> FALSE, calls |-> 0, status |-> 401,
               error |-> "TOKEN_VERIFICATION_FAILED", user |-> None]
         ELSE Passed(Some([id |-> v.decoded.id, email |-> v.decoded.email,
                           role |-> v.decoded.role,
                           specialization |-> v.decoded.specialization]))

\* optionalAuthentication: req.user is set when there is a token and
\* verifyToken returns; what verifyToken throws is caught and dropped;
\* next() is called on every path.
optionalAuthentication(authHeader, t) ==
    LET token == extractTokenFromHeader(authHeader) IN
    IF ~IsSome(token) \/ Val(token) = Word("")
    THEN Passed(None)
    ELSE LET v == verifyToken(Val(token), t) IN
         IF ~v.ok
         THEN Passed(None)
         ELSE Passed(Some([id |-> v.decoded.id, email |-> v.decoded.email,
                           role |-> v.decoded.role,
                           specialization |-> v.decoded.specialization]))

\* GET /api/optional-auth: the handler greets req.user or an anonymous
\* caller
getOptionalAuth(t, authorization) ==
    LET m == optionalAuthentication(authorization, t) IN
    IF ~m.next
    THEN [status |-> m.status, error |-> m.error, nextCalls |-> m.calls,
          user |-> None]
    ELSE [status |-> 200, error |-> "", nextCalls |-> m.calls,
          user |-> m.user]

OpOptional == "GET /api/optional-auth"

\* The headers of the requests above and the header texts, split
OptionalHeaders ==
    Headers \cup {SplitHeader(Some(text)) : text \in HeaderTexts}

OptionalAuth ==
    /\ Arrives
    /\ \E h \in OptionalHeaders :
           /\ res' = getOptionalAuth(now, h)
           /\ req' = Request(OpOptional, h, "", NoBody)
    /\ UNCHANGED <<users, appointments, prescriptions, now, ticks, acked>>
    /\ UNCHANGED authVars
    /\ UNCHANGED sideVars

OptNext ==
    \/ OptionalAuth
    \/ Finish
    \/ Tick

OptSpec == Init /\ [][OptNext]_vars

----------------------------------------------------------------------------
(* An acknowledge and a status change of one appointment, interleaved.      *)
(* A handler runs from one await to the next without interruption; at an    *)
(* await the other handler may run.                                         *)

\* A handler at an await: where it is, its request, what authenticateToken
\* left, the appointment getAppointment returned, the status it passed to
\* updateAppointmentStatus, its response
Task(pc, authorization, id, body, m, appointment, passed, response) ==
    [pc |-> pc, authorization |-> authorization, id |-> id, body |-> body,
     m |-> m, appointment |-> appointment, passed |-> passed,
     res |-> response]

\* An appointment.status read from a copy getAppointment made
AckStatusFromCopy(appts, task) == Val(task.appointment).status

\* appointment.status in the call of updateAppointmentStatus: getAppointment
\* returned the object the Map holds, updateAppointmentStatus changes that
\* object in place, so the field has the value of the moment of the call
AckStatus(appts, task) == appts[task.id].status

\* The callers of the two requests: the patient, the appointment's doctor,
\* another doctor, nobody
AckHeaders ==
    {Bearer(generateToken(users[u], now)) : u \in {"P1", "D1"}} \cup {None}
StatusHeaders ==
    {Bearer(generateToken(users[u], now)) : u \in {"D1", "D2", "P1"}}

\* authenticateToken of POST /api/appointments/:id/ack, up to its await
AckAuth ==
    /\ running.ack = NoTask
    /\ \E h \in AckHeaders, id \in ApptIdInputs :
           LET m == authenticateToken(h, now) IN
           running' =
               [running EXCEPT !.ack =
                   IF m.next
                   THEN Task("handler", h, id, NoBody, m, None, None, NoResponse)
                   ELSE Task("done", h, id, NoBody, m, None, None,
                             Response(m.status, m.error))]
    /\ UNCHANGED <<users, appointments, prescriptions, now, ticks, req, res,
                   acked, before, disk, client>>
    /\ UNCHANGED authVars

\* The handler up to `await storage.getAppointment(id)`
AckGet ==
    /\ running.ack.pc = "handler"
    /\ running' =
          [running EXCEPT
              !.ack.pc = "update",
              !.ack.appointment = getAppointment(appointments, running.ack.id)]
    /\ UNCHANGED <<users, appointments, prescriptions, now, ticks, req, res,
                   acked, before, disk, client>>
    /\ UNCHANGED authVars

\* From there to `await storage.updateAppointmentStatus(...)`: the checks,
\* then the call, which changes the appointment before it returns
AckUpdate ==
    /\ running.ack.pc = "update"
    /\ LET task == running.ack IN
       IF ~IsSome(task.appointment)
       THEN /\ running' = [running EXCEPT
                              !.ack.pc = "done",
                              !.ack.res = Response(404, "Appointment not found")]
            /\ UNCHANGED appointments
       ELSE IF Val(task.appointment).patientId # task.m.user.id
       THEN /\ running' = [running EXCEPT
                              !.ack.pc = "done",
                              !.ack.res = Response(403, "Not allowed")]
            /\ UNCHANGED appointments
       ELSE LET status == AckStatus(appointments, task) IN
            /\ appointments' =
                  updateAppointmentStatus(appointments, task.id, Some(status),
                      [NoExtra EXCEPT !.patientNotified = Some(TRUE)])
            /\ running' = [running EXCEPT
                              !.ack.pc = "respond",
                              !.ack.passed = Some(status)]
    /\ UNCHANGED <<users, prescriptions, now, ticks, req, res, acked, before,
                   disk, client>>
    /\ UNCHANGED authVars

\* res.json(updated)
AckRespond ==
    /\ running.ack.pc = "respond"
    /\ running' = [running EXCEPT !.ack.pc = "done",
                                  !.ack.res = Response(200, "")]
    /\ UNCHANGED <<users, appointments, prescriptions, now, ticks, req, res,
                   acked, before, disk, client>>
    /\ UNCHANGED authVars

\* authenticateToken of PATCH /api/appointments/:id/status, up to its await
StatusAuth ==
    /\ running.patch = NoTask
    /\ \E h \in StatusHeaders, id \in ApptIdInputs :
       \E body \in IF authenticateAndAuthorize(h, now, {"doctor"}).next
                    THEN PatchBodies ELSE {NoBody} :
           LET m == authenticateToken(h, now) IN
           running' =
               [running EXCEPT !.patch =
                   IF m.next
                   THEN Task("handler", h, id, body, m, None, None, NoResponse)
                   ELSE Task("done", h, id, body, m, None, None,
                             Response(m.status, m.error))]
    /\ UNCHANGED <<users, appointments, prescriptions, now, ticks, req, res,
                   acked, before, disk, client>>
    /\ UNCHANGED authVars

\* requireRole and the handler up to `await
\* storage.updateAppointmentStatus(...)`
StatusUpdate ==
    /\ running.patch.pc = "handler"
    /\ LET task == running.patch
           m == requireRole(task.m, {"doctor"})
       IN  IF ~m.next
           THEN /\ running' = [running EXCEPT
                                  !.patch.pc = "done",
                                  !.patch.res = Response(m.status, m.error)]
                /\ UNCHANGED appointments
           ELSE IF /\ IsSome(task.body.clinicPhone)
                   /\ Len(Val(task.body.clinicPhone)) > 0
                   /\ ~PhoneOk(Val(task.body.clinicPhone))
           THEN /\ running' =
                      [running EXCEPT
                          !.patch.pc = "done",
                          !.patch.res = Response(400, "Invalid clinicPhone format")]
                /\ UNCHANGED appointments
           ELSE /\ appointments' =
                      updateAppointmentStatus(appointments, task.id,
                          task.body.status,
                          [doctorComment |-> task.body.doctorComment,
                           clinicAddress |-> task.body.clinicAddress,
                           clinicPhone |-> task.body.clinicPhone,
                           patientNotified |-> None])
                /\ running' =
                      [running EXCEPT
                          !.patch.pc = "respond",
                          !.patch.appointment =
                              getAppointment(appointments, task.id),
                          !.patch.passed =
                              IF task.id \in DOMAIN appointments
                              THEN Some(Coalesce(task.body.status, Undefined))
                              ELSE None]
    /\ UNCHANGED <<users, prescriptions, now, ticks, req, res, acked, before,
                   disk, client>>
    /\ UNCHANGED authVars

\* The rest of the handler: 404, 403 or the appointment
StatusRespond ==
    /\ running.patch.pc = "respond"
    /\ LET task == running.patch IN
       running' =
           [running EXCEPT
               !.patch.pc = "done",
               !.patch.res =
                   IF ~IsSome(task.appointment)
                   THEN Response(404, "Appointment not found")
                   ELSE IF Val(task.appointment).doctorId # task.m.user.id
                   THEN Response(403,
                          "You can only update the status of your own appointments.")
                   ELSE Response(200, "")]
    /\ UNCHANGED <<users, appointments, prescriptions, now, ticks, req, res,
                   acked, before, disk, client>>
    /\ UNCHANGED authVars

ConcNext ==
    \/ AckAuth
    \/ AckGet
    \/ AckUpdate
    \/ AckRespond
    \/ StatusAuth
    \/ StatusUpdate
    \/ StatusRespond

\* The store holds the appointment patient P1 has with doctor D1
ConcSpec == PhoneInit /\ [][ConcNext]_vars

----------------------------------------------------------------------------
(* appointments.json: every createAppointment and updateAppointmentStatus   *)
(* starts a writeFileSafe that nothing awaits.  disk.file is the list in    *)
(* appointments.json, disk.tmp the one in appointments.json.tmp (None when  *)
(* there is no such file), disk.writes the calls of writeFileSafe that have *)
(* not returned.  The file operations of different calls are carried out in *)
(* any order; fs.writeFile is taken to replace the content in one go.       *)

\* Calls of writeFileSafe that are started
MaxWrites == 3

\* persistAppointments: Array.from(this.appointments.values()) is the array
\* of the objects the Map holds now, and writeFileSafe runs up to its first
\* await, fs.mkdir
persistAppointments(d, appts) ==
    [d EXCEPT
        !.writes = Append(@, [pc |-> "mkdir",
                              data |-> SelectSeq(ApptUUIDs,
                                          LAMBDA i : i \in DOMAIN appts),
                              text |-> <<>>]),
        !.started = @ + 1]

\* JSON.stringify(data): the objects of the array as they are now
Stringify(appts, data) == [k \in 1..Len(data) |-> appts[data[k]]]

\* The writes without the k-th
Returned(writes, k) ==
    [j \in 1..(Len(writes) - 1) |-> IF j < k THEN writes[j] ELSE writes[j + 1]]

\* What is booked while the file is written
DiskBodies ==
    {ApptBody("P1", d, Some(2000000000), GoodSlot, None) : d \in {"D1", "D2"}}

\* storage.createAppointment
StoreCreate ==
    /\ disk.started < MaxWrites
    /\ \E body \in DiskBodies :
           /\ appointments' = createAppointment(appointments, body)
           /\ disk' = persistAppointments(disk, appointments')
    /\ UNCHANGED <<users, prescriptions, now, ticks, req, res, acked, before,
                   running, client>>
    /\ UNCHANGED authVars

\* storage.updateAppointmentStatus of a stored appointment
StoreUpdate ==
    /\ disk.started < MaxWrites
    /\ \E id \in DOMAIN appointments, status \in {"confirmed", "rejected"} :
           /\ appointments' =
                 updateAppointmentStatus(appointments, id, Some(status), NoExtra)
           /\ disk' = persistAppointments(disk, appointments')
    /\ UNCHANGED <<users, prescriptions, now, ticks, req, res, acked, before,
                   running, client>>
    /\ UNCHANGED authVars

\* fs.mkdir has returned: the data is turned into text and fs.writeFile of
\* the temporary file is started
WriteStarts ==
    /\ \E k \in 1..Len(disk.writes) :
           /\ disk.writes[k].pc = "mkdir"
           /\ disk' = [disk EXCEPT
                          !.writes[k].pc = "writeFile",
                          !.writes[k].text =
                              Stringify(appointments, disk.writes[k].data)]
    /\ UNCHANGED <<users, appointments, prescriptions, now, ticks, req, res,
                   acked, before, running, client>>
    /\ UNCHANGED authVars

\* fs.writeFile has written the temporary file
WriteFile ==
    /\ \E k \in 1..Len(disk.writes) :
           /\ disk.writes[k].pc = "writeFile"
           /\ disk' = [disk EXCEPT
                          !.writes[k].pc = "rename",
                          !.tmp = Some(disk.writes[k].text)]
    /\ UNCHANGED <<users, appointments, prescriptions, now, ticks, req, res,
                   acked, before, running, client>>
    /\ UNCHANGED authVars

\* fs.rename(tmp, file): the temporary file becomes appointments.json, or
\* there is no temporary file, the call fails with ENOENT and the promise
\* of writeFileSafe is rejected
Rename ==
    /\ \E k \in 1..Len(disk.writes) :
           /\ disk.writes[k].pc = "rename"
           /\ disk' =
                 IF IsSome(disk.tmp)
                 THEN [disk EXCEPT !.file = Val(disk.tmp),
                                   !.tmp = None,
                                   !.writes = Returned(@, k)]
                 ELSE [disk EXCEPT !.failed = TRUE,
                                   !.writes = Returned(@, k)]
    /\ UNCHANGED <<users, appointments, prescriptions, now, ticks, req, res,
                   acked, before, running, client>>
    /\ UNCHANGED authVars

DiskNext ==
    \/ StoreCreate
    \/ StoreUpdate
    \/ WriteStarts
    \/ WriteFile
    \/ Rename

DiskSpec == Init /\ [][DiskNext]_vars

----------------------------------------------------------------------------
(* The client: AuthProvider (client/src/contexts/AuthContext.tsx) in one    *)
(* browser tab, the localStorage it shares with the other tabs, and         *)
(* ProtectedRoute (client/src/App.tsx).  client.user and client.isLoading   *)
(* are the state of the component, client.token and client.cached the       *)
(* entries auth_token and auth_user of localStorage, client.calls the       *)
(* requests that are not answered yet, client.events the storage events     *)
(* that are not handled yet.                                                *)

\* Requests of the client that wait for their answer
MaxCalls == 2

\* The tokens a browser holds: one the server accepts and one that has
\* expired, both issued to P1, and one the server accepts, issued to D1
ClientToken(u, valid) == [user |-> u, valid |-> valid]
ClientTokens ==
    {ClientToken("P1", TRUE), ClientToken("P1", FALSE), ClientToken("D1", TRUE)}

ApiCall(kind, sent) == [kind |-> kind, sent |-> sent]

\* The tab is opened: what an earlier visit left in localStorage is nothing
\* (the visitor never logged in, or logged out) or a token with its user
\* (login and register store both)
ClientInit ==
    /\ users = InitialUsers
    /\ appointments = Empty
    /\ prescriptions = Empty
    /\ now = 0
    /\ ticks = 0
    /\ req = Idle
    /\ res = NoResponse
    /\ acked = {}
    /\ before = NoStore
    /\ AuthInit
    /\ running = NoTasks
    /\ disk = NoDisk
    /\ \E stored \in {None} \cup {Some(t) : t \in ClientTokens} :
           client = [mounted |-> FALSE, user |-> None, isLoading |-> TRUE,
                     token |-> stored,
                     cached |-> IF IsSome(stored) THEN Some(Val(stored).user)
                                ELSE None,
                     calls |-> <<>>, events |-> <<>>]

\* What the actions of the client leave alone
ServerUnchanged ==
    /\ UNCHANGED <<users, appointments, prescriptions, now, ticks, req, res,
                   acked, before, running, disk>>
    /\ UNCHANGED authVars

\* The calls without the k-th
Answered(calls, k) ==
    [j \in 1..(Len(calls) - 1) |-> IF j < k THEN calls[j] ELSE calls[j + 1]]

\* GET /api/auth/me, POST /api/auth/login and register may be answered with
\* a user: me when the token that was sent is one the server accepts
MaySucceed(call) ==
    call.kind \in {"login", "register"}
    \/ (IsSome(call.sent) /\ Val(call.sent).valid)

\* The first effect of AuthProvider
Mount ==
    /\ ~client.mounted
    /\ client' =
          [client EXCEPT
              !.mounted = TRUE,
              !.user = IF IsSome(client.cached) THEN client.cached ELSE @,
              !.calls = IF IsSome(client.token)
                        THEN Append(@, ApiCall("mount", client.token)) ELSE @,
              !.isLoading = IF IsSome(client.token) THEN @ ELSE FALSE]
    /\ ServerUnchanged

\* The getCurrentUser of the first effect is answered with the user:
\* then, finally
MountMeSucceeds ==
    /\ \E k \in 1..Len(client.calls) :
           /\ client.calls[k].kind = "mount"
           /\ MaySucceed(client.calls[k])
           /\ client' =
                 [client EXCEPT
                     !.user = Some(Val(client.calls[k].sent).user),
                     !.cached = Some(Val(client.calls[k].sent).user),
                     !.isLoading = FALSE,
                     !.calls = Answered(@, k)]
    /\ ServerUnchanged

\* It fails (401, or no answer): catch, finally
MountMeFails ==
    /\ \E k \in 1..Len(client.calls) :
           /\ client.calls[k].kind = "mount"
           /\ client' =
                 [client EXCEPT
                     !.token = None,
                     !.cached = None,
                     !.isLoading = FALSE,
                     !.calls = Answered(@, k)]
    /\ ServerUnchanged

\* Another tab logs in: it stores a token and its user, and this tab gets
\* the two storage events
OtherTabLogsIn ==
    /\ client.mounted
    /\ client.events = <<>>
    /\ \E t \in ClientTokens :
           client' = [client EXCEPT
                         !.token = Some(t),
                         !.cached = Some(t.user),
                         !.events = <<"auth_token", "auth_user">>]
    /\ ServerUnchanged

\* Another tab logs out
OtherTabLogsOut ==
    /\ client.mounted
    /\ client.events = <<>>
    /\ IsSome(client.token)
    /\ client' = [client EXCEPT
                     !.token = None,
                     !.cached = None,
                     !.events = <<"auth_token", "auth_user">>]
    /\ ServerUnchanged

\* handleStorage
HandleStorage ==
    /\ client.events # <<>>
    /\ LET key == Head(client.events)
           rest == [client EXCEPT !.events = Tail(@)]
       IN  IF key = "auth_token"
           THEN IF ~IsSome(client.token)
                THEN client' = [rest EXCEPT !.user = None, !.cached = None]
                ELSE /\ Len(client.calls) < MaxCalls
                     /\ client' =
                           [rest EXCEPT
                               !.calls = Append(@, ApiCall("sync", client.token))]
           ELSE client' =
                    [rest EXCEPT
                        !.user = IF IsSome(client.cached) THEN client.cached
                                 ELSE @]
    /\ ServerUnchanged

\* The getCurrentUser of handleStorage is answered with the user
SyncMeSucceeds ==
    /\ \E k \in 1..Len(client.calls) :
           /\ client.calls[k].kind = "sync"
           /\ MaySucceed(client.calls[k])
           /\ client' =
                 [client EXCEPT
                     !.user = Some(Val(client.calls[k].sent).user),
                     !.cached = Some(Val(client.calls[k].sent).user),
                     !.calls = Answered(@, k)]
    /\ ServerUnchanged

\* It fails
SyncMeFails ==
    /\ \E k \in 1..Len(client.calls) :
           /\ client.calls[k].kind = "sync"
           /\ client' =
                 [client EXCEPT
                     !.token = None,
                     !.cached = None,
                     !.user = None,
                     !.calls = Answered(@, k)]
    /\ ServerUnchanged

\* login and register up to `await authApi.login(...)`, `await
\* authApi.register(...)`
LoginOrRegister ==
    /\ client.mounted
    /\ Len(client.calls) < MaxCalls
    /\ \E kind \in {"login", "register"} :
           client' = [client EXCEPT !.calls = Append(@, ApiCall(kind, None))]
    /\ ServerUnchanged

\* The answer has a token and a user
LoginSucceeds ==
    /\ \E k \in 1..Len(client.calls), t \in {t \in ClientTokens : t.valid} :
           /\ client.calls[k].kind \in {"login", "register"}
           /\ client' =
                 [client EXCEPT
                     !.token = Some(t),
                     !.user = Some(t.user),
                     !.cached = Some(t.user),
                     !.calls = Answered(@, k)]
    /\ ServerUnchanged

\* The request fails or the answer has no token: login throws
LoginFails ==
    /\ \E k \in 1..Len(client.calls) :
           /\ client.calls[k].kind \in {"login", "register"}
           /\ client' = [client EXCEPT !.calls = Answered(@, k)]
    /\ ServerUnchanged

\* logout
Logout ==
    /\ client.mounted
    /\ client' = [client EXCEPT !.token = None, !.cached = None,
                                !.user = None]
    /\ ServerUnchanged

\* ProtectedRoute without allowedRoles: what it renders
ProtectedRoute(c) ==
    IF c.isLoading THEN "Loading..."
    ELSE IF ~IsSome(c.user) THEN "Redirect to /login"
    ELSE "children"

ClientNext ==
    \/ Mount
    \/ MountMeSucceeds
    \/ MountMeFails
    \/ OtherTabLogsIn
    \/ OtherTabLogsOut
    \/ HandleStorage
    \/ SyncMeSucceeds
    \/ SyncMeFails
    \/ LoginOrRegister
    \/ LoginSucceeds
    \/ LoginFails
    \/ Logout

ClientSpec == ClientInit /\ [][ClientNext]_vars

----------------------------------------------------------------------------
(* Registration and login (server/routes.ts, shared/schema.ts)              *)

UpperCase ==
    {"A", "B", "C", "D", "E", "F", "G", "H", "I", "J", "K", "L", "M",
     "N", "O", "P", "Q", "R", "S", "T", "U", "V", "W", "X", "Y", "Z"}
LowerCase ==
    {"a", "b", "c", "d", "e", "f", "g", "h", "i", "j", "k", "l", "m",
     "n", "o", "p", "q", "r", "s", "t", "u", "v", "w", "x", "y", "z"}

Has(str, class) == \E i \in 1..Len(str) : str[i] \in class

\* registerSchema.password: min(8) and the four regex
PasswordOk(password) ==
    /\ Len(password) >= 8
    /\ Has(password, UpperCase)
    /\ Has(password, LowerCase)
    /\ Has(password, Digits)
    /\ \E i \in 1..Len(password) :
          password[i] \notin UpperCase \cup LowerCase \cup Digits

\* The superRefine of registerSchema: role doctor needs a specialization
\* that is not blank
SpecializationOk(role, specialization) ==
    role = "doctor" =>
        IsSome(specialization) /\ Len(Trim(Val(specialization))) > 0

\* registerSchema.parse(body): email and role are any string
registerSchemaParse(body) ==
    /\ Len(body.name) >= 2
    /\ Len(body.name) <= 80
    /\ PasswordOk(body.password)
    /\ body.password = body.confirmPassword
    /\ SpecializationOk(body.role, body.specialization)

\* What z.string().email() says of the addresses that are tried
MalformedEmails == {"raj.kumar"}
EmailOk(email) == email \notin MalformedEmails

\* loginSchema.parse(body)
loginSchemaParse(body) == EmailOk(body.email) /\ Len(body.password) >= 6

\* The ids of the users in the order they were put in the Map
UserUUIDs == <<"N1", "N2", "N3", "N4">>
UserOrder == <<"D1", "D2", "D3", "P1", "U1", "U2">> \o UserUUIDs

\* MemStorage.getUserByEmail: the first user of the Map with that email
getUserByEmail(us, email) ==
    LET found == {k \in 1..Len(UserOrder) :
                     /\ UserOrder[k] \in DOMAIN us
                     /\ us[UserOrder[k]].email = email}
    IN  IF found = {} THEN None
        ELSE Some(us[UserOrder[CHOOSE k \in found : \A j \in found : k <= j]])

\* MemStorage.createUser: the id the new user gets, and the Map with it
NewUserId(us) == UserUUIDs[Cardinality(DOMAIN us \ DOMAIN InitialUsers) + 1]

createUser(us, insertUser, t) ==
    LET id == NewUserId(us) IN
    [i \in DOMAIN us \cup {id} |->
        IF i = id
        THEN [id |-> id, email |-> insertUser.email, role |-> insertUser.role,
              specialization |->
                  IF IsSome(insertUser.specialization)
                     /\ Len(Val(insertUser.specialization)) > 0
                  THEN insertUser.specialization ELSE None,
              createdAt |-> t,
              password |-> insertUser.password]
        ELSE us[i]]

OpRegister == "POST /api/auth/register"
OpLogin == "POST /api/auth/login"

\* A ZodError thrown in a handler: asyncHandler hands it to the error
\* middleware, which finds no status on it
Thrown == Response(500, "ZodError")

OtherStrongPassword == <<"N", "e", "x", "u", "s", "#", "4", "5">>
WeakPassword == <<"p", "a", "s", "s", "w", "o", "r", "d">>
ShortPassword == <<"a", "b", "c">>

\* Passwords of 73 characters that differ in the last one only
LongPassword(last) ==
    StrongPassword \o StrongPassword \o StrongPassword \o StrongPassword
    \o StrongPassword \o StrongPassword \o StrongPassword \o StrongPassword
    \o StrongPassword \o <<last>>

RegisterBody(email, password, confirmPassword, role, specialization) ==
    [name |-> <<"R", "a", "j">>, email |-> email, password |-> password,
     confirmPassword |-> confirmPassword, role |-> role,
     specialization |-> specialization]

\* Bodies of POST /api/auth/register
RegisterBodies ==
    {RegisterBody("new@sehat.com", p, p, "patient", None) :
        p \in {StrongPassword, OtherStrongPassword, WeakPassword}}
    \cup {RegisterBody("new@sehat.com", StrongPassword, OtherStrongPassword,
                       "patient", None),
          RegisterBody("raj.kumar@patient.com", StrongPassword, StrongPassword,
                       "patient", None),
          RegisterBody("raj.kumar", StrongPassword, StrongPassword,
                       "patient", None),
          RegisterBody("long@sehat.com", LongPassword("x"), LongPassword("x"),
                       "patient", None),
          [RegisterBody("new@sehat.com", StrongPassword, StrongPassword,
                        "patient", None) EXCEPT !.name = <<"R">>]}
    \cup {RegisterBody("doc@sehat.com", StrongPassword, StrongPassword,
                       "doctor", sp) :
            sp \in {None, Some(<<" ">>), Some(<<"E", "N", "T">>)}}

\* Bodies of POST /api/auth/login
LoginBodies ==
    {[email |-> e, password |-> p] :
        e \in {"new@sehat.com"},
        p \in {StrongPassword, OtherStrongPassword, ShortPassword}}
    \cup {[email |-> "long@sehat.com", password |-> LongPassword(c)] :
            c \in {"x", "y"}}
    \cup {[email |-> "raj.kumar", password |-> StrongPassword],
          [email |-> "raj.kumar@patient.com", password |-> SeedPassword],
          [email |-> "raj.kumar@patient.com", password |-> StrongPassword],
          [email |-> "nobody@sehat.com", password |-> StrongPassword]}

\* POST /api/auth/login: the handler awaits bcrypt.compare with the user it
\* has found, and users are never changed or removed
postLogin(us, body) ==
    IF ~loginSchemaParse(body) THEN Thrown
    ELSE LET user == getUserByEmail(us, body.email) IN
         IF ~IsSome(user) THEN Response(401, "Invalid credentials")
         ELSE IF ~bcryptCompare(body.password, Val(user).password)
         THEN Response(401, "Invalid credentials")
         ELSE Response(200, "")

Registered == Cardinality(DOMAIN users \ DOMAIN InitialUsers)

\* POST /api/auth/register up to `await bcrypt.hash`: the body is parsed and
\* the email looked up; the request then waits while bcryptjs works, and
\* other requests are served.
RegisterArrives ==
    /\ Arrives
    /\ \E body \in RegisterBodies :
           /\ req' = Request(OpRegister, None, "", body)
           /\ IF ~registerSchemaParse(body)
              THEN res' = Thrown /\ hashing' = hashing
              ELSE IF IsSome(getUserByEmail(users, body.email))
              THEN res' = Response(400, "User already exists")
                   /\ hashing' = hashing
              ELSE /\ Registered + Len(hashing) < MaxRegistrations
                   /\ res' = NoResponse
                   /\ hashing' = Append(hashing, body)
    /\ UNCHANGED <<users, appointments, prescriptions, now, ticks, acked,
                   plaintext, held, verdict>>
    /\ UNCHANGED sideVars

\* POST /api/auth/register from the hash on: the user is created with the
\* hashed password and the request is answered 201.
RegisterHashed ==
    /\ Arrives
    /\ \E k \in 1..Len(hashing) :
           LET body == hashing[k]
               id == NewUserId(users)
           IN  /\ users' = createUser(users,
                               [body EXCEPT !.password = bcryptHash(body.password)],
                               now)
               /\ plaintext' =
                     [i \in DOMAIN plaintext \cup {id} |->
                         IF i = id THEN body.password ELSE plaintext[i]]
               /\ hashing' = [j \in 1..(Len(hashing) - 1) |->
                                 IF j < k THEN hashing[j] ELSE hashing[j + 1]]
               /\ req' = Request(OpRegister, None, "", body)
               /\ res' = Response(201, "")
    /\ UNCHANGED <<appointments, prescriptions, now, ticks, acked, held, verdict>>
    /\ UNCHANGED sideVars

Login ==
    /\ Arrives
    /\ \E body \in LoginBodies :
           /\ req' = Request(OpLogin, None, "", body)
           /\ res' = postLogin(users, body)
    /\ UNCHANGED <<users, appointments, prescriptions, now, ticks, acked>>
    /\ UNCHANGED authVars
    /\ UNCHANGED sideVars

RegNext ==
    \/ RegisterArrives
    \/ RegisterHashed
    \/ Login
    \/ Finish

RegSpec == Init /\ [][RegNext]_vars

----------------------------------------------------------------------------
(* verifyToken asked again and again about one token while time passes      *)

\* Seconds before the start of the run at which the token was issued: its
\* expiry lies at, just before and just after the start, or a week away
IssuedBefore ==
    {0, 1, JWT_EXPIRES_IN - 2, JWT_EXPIRES_IN - 1, JWT_EXPIRES_IN,
     JWT_EXPIRES_IN + 1}

\* Tokens of the server, tokens signed by somebody else, text that is no JWT
TokenInputs ==
    {generateToken(InitialUsers[u], 0 - d) :
        u \in {"D1", "P1"}, d \in IssuedBefore}
    \cup {ForgedToken(InitialUsers[u], 0 - d) :
            u \in {"D1", "P1"}, d \in IssuedBefore}
    \cup {Word("abc.def")}

TokenInit ==
    /\ users = InitialUsers
    /\ appointments = Empty
    /\ prescriptions = Empty
    /\ now = 0
    /\ ticks = 0
    /\ req = Idle
    /\ res = NoResponse
    /\ acked = {}
    /\ before = NoStore
    /\ hashing = <<>>
    /\ plaintext = InitialPlaintext
    /\ held \in TokenInputs
    /\ verdict = NoVerdict
    /\ SideInit

Verify ==
    /\ verdict' = [at |-> now, result |-> verifyToken(held, now)]
    /\ UNCHANGED <<users, appointments, prescriptions, now, ticks, req, res,
                   acked, before, hashing, plaintext, held>>
    /\ UNCHANGED sideVars

Second ==
    /\ now < MaxClock
    /\ now' = now + 1
    /\ UNCHANGED <<users, appointments, prescriptions, ticks, req, res, acked,
                   before, hashing, plaintext, held, verdict>>
    /\ UNCHANGED sideVars

TokenNext ==
    \/ Verify
    \/ Second

TokenSpec == TokenInit /\ [][TokenNext]_vars

----------------------------------------------------------------------------
(* Properties.  Each is a predicate on the state a request leaves: req and  *)
(* res are the request and its answer, before is the store it found.        *)

\* The tokens of user u that the server issued and that have not expired
ValidTokensOf(u) == {tok \in TokensOf(users[u], now) : tok.exp > now}

\* The Authorization headers that authenticate their sender as user u
HeadersOf(u) ==
    {Bearer(tok) : tok \in ValidTokensOf(u)}
    \cup {Some(<<tok>>) : tok \in ValidTokensOf(u)}

AuthenticatedAs(u) == req.authorization \in HeadersOf(u)

\* The headers that carry a token of the server which has expired
ExpiredHeaders ==
    {Bearer(tok) :
        tok \in {k \in UNION {TokensOf(users[u], now) : u \in Callers} :
                    k.exp <= now}}

\* The request is for a stored appointment
OnStored == req.id \in DOMAIN before.appointments

Old == before.appointments[req.id]
New == appointments[req.id]

\* Nothing in the store differs from what the request found
StoreUnchanged ==
    /\ users = before.users
    /\ appointments = before.appointments
    /\ prescriptions = before.prescriptions

AllowedTransitions ==
    {<<"pending", "confirmed">>, <<"pending", "rejected">>,
     <<"confirmed", "completed">>}

\* The body asks for a status the appointment may not move to
BadTransition ==
    \/ ~IsSome(req.body.status)
    \/ <<Old.status, Val(req.body.status)>> \notin AllowedTransitions

PatchByAssignedDoctor ==
    /\ req.op = OpPatch
    /\ OnStored
    /\ Old.doctorId \in Callers
    /\ AuthenticatedAs(Old.doctorId)

PatchByOtherDoctor ==
    /\ req.op = OpPatch
    /\ OnStored
    /\ \E u \in Callers :
          /\ users[u].role = "doctor"
          /\ u # Old.doctorId
          /\ AuthenticatedAs(u)

\* C1: a PATCH status by the assigned doctor changes the status only along
\* pending->confirmed, pending->rejected or confirmed->completed; any other
\* requested status is answered 400 InvalidTransition and the appointment
\* stays as it was.
C1_StatusOnlyAlongTransitions ==
    PatchByAssignedDoctor =>
        /\ New.status # Old.status =>
              <<Old.status, New.status>> \in AllowedTransitions
        /\ BadTransition =>
              /\ res = Response(400, "InvalidTransition")
              /\ New = Old

\* C2: a PATCH status by an authenticated doctor who is not the appointment's
\* doctor leaves its status, doctorComment, clinicAddress and clinicPhone as
\* they were.
C2_OtherDoctorChangesNothing ==
    PatchByOtherDoctor =>
        /\ New.status = Old.status
        /\ New.doctorComment = Old.doctorComment
        /\ New.clinicAddress = Old.clinicAddress
        /\ New.clinicPhone = Old.clinicPhone

\* The body carries a clinicPhone that is not empty and fails the pattern
PhoneRefused ==
    /\ IsSome(req.body.clinicPhone)
    /\ Len(Val(req.body.clinicPhone)) > 0
    /\ ~PhoneOk(Val(req.body.clinicPhone))

Created == appointments[randomUUID(before.appointments)]

\* C4: the appointment stored by a successful POST /api/appointments is
\* pending and not notified, whatever the body carries.
C4_CreatedPendingNotNotified ==
    req.op = OpCreate /\ res.status = 201 =>
        /\ Created.status = "pending"
        /\ Created.patientNotified = FALSE

PostByPatient(u) ==
    /\ req.op = OpCreate
    /\ users[u].role = "patient"
    /\ AuthenticatedAs(u)

\* C5 as stated: a patient who posts an appointment for another patientId
\* gets 403 and nothing is created.
C5_OtherPatientIdGets403 ==
    \A u \in Callers :
        PostByPatient(u) /\ req.body.patientId # u =>
            /\ res.status = 403
            /\ appointments = before.appointments

\* C5: a patient who posts an appointment for another patientId gets 400
\* when the body fails validation and 403 otherwise, and nothing is created;
\* an appointment a patient creates carries the patient's own id.
C5_OtherPatientIdGets403Or400 ==
    \A u \in Callers :
        PostByPatient(u) =>
            /\ req.body.patientId # u =>
                  /\ res.status =
                        IF insertAppointmentSchemaParse(req.body, now).ok
                        THEN 403 ELSE 400
                  /\ appointments = before.appointments
            /\ appointments # before.appointments => Created.patientId = u

C5_Witness ==
    /\ PostByPatient("P1")
    /\ req.body.patientId = "P2"
    /\ insertAppointmentSchemaParse(req.body, now).ok
    /\ res.status = 403
    /\ appointments = before.appointments

ProtectedOps == {OpMe, OpCreate, OpPatch, OpAck, OpRx}

C7_NonDoctorGets403 ==
    \A u \in Callers :
        /\ req.op \in {OpPatch, OpRx}
        /\ users[u].role # "doctor"
        /\ AuthenticatedAs(u)
        => /\ res.status = 403
           /\ req.body = NoBody
           /\ StoreUnchanged

C7_Witness ==
    /\ req.op = OpPatch
    /\ OnStored
    /\ AuthenticatedAs("U1")
    /\ users["U1"].role = "admin"
    /\ res.status = 403

AckBy(u) == req.op = OpAck /\ AuthenticatedAs(u)

\* C8: an acknowledge by a caller who is not the appointment's patient is
\* answered 403 and the appointment stays as it was; an acknowledge of an
\* unknown id is answered 404.
C8_AckByOthersRefused ==
    \A u \in Callers :
        AckBy(u) =>
            IF OnStored
            THEN u # Old.patientId =>
                    res.status = 403 /\ appointments = before.appointments
            ELSE res.status = 404 /\ appointments = before.appointments

C8_Witness ==
    /\ OnStored
    /\ AckBy(Old.doctorId)
    /\ ~Old.patientNotified
    /\ res.status = 403
    /\ New = Old

\* C9: a successful acknowledge by the appointment's patient sets
\* patientNotified and changes nothing else, in the appointment and in the
\* store, whatever the status.
C9_AckSetsOnlyNotified ==
    \A u \in Callers :
        AckBy(u) /\ OnStored /\ u = Old.patientId /\ res.status = 200 =>
            /\ New = [Old EXCEPT !.patientNotified = TRUE]
            /\ \A i \in DOMAIN before.appointments \ {req.id} :
                  appointments[i] = before.appointments[i]
            /\ DOMAIN appointments = DOMAIN before.appointments

C9_Witness ==
    /\ OnStored
    /\ Old.patientId = "P1"
    /\ AckBy("P1")
    /\ res.status = 200
    /\ Old.status = "rejected"
    /\ IsSome(Old.doctorComment)
    /\ ~Old.patientNotified
    /\ New.patientNotified

\* C10: an acknowledge by the appointment's patient of an appointment that
\* patient has acknowledged before is answered 200 and leaves the
\* appointment as the request found it, patientNotified true.
C10_SecondAckChangesNothing ==
    \A u \in Callers :
        AckBy(u) /\ OnStored /\ u = Old.patientId /\ req.id \in before.acked =>
            /\ res.status = 200
            /\ Old.patientNotified
            /\ appointments = before.appointments

C10_Witness ==
    /\ OnStored
    /\ Old.patientId = "P1"
    /\ AckBy("P1")
    /\ req.id \in before.acked
    /\ res.status = 200
    /\ New = Old

PostRxByDoctor(u) ==
    /\ req.op = OpRx
    /\ users[u].role = "doctor"
    /\ AuthenticatedAs(u)

\* The prescription a POST /api/prescriptions has just stored
CreatedRx ==
    prescriptions[CHOOSE i \in DOMAIN prescriptions :
                     i \notin DOMAIN before.prescriptions]

MedicinesOk(medicines) ==
    /\ Len(medicines) > 0
    /\ \A i \in 1..Len(medicines) : medicines[i].name # ""

\* C12: a POST /api/prescriptions whose medicines list is empty or holds an
\* entry without a name is answered 400 and stores nothing; every stored
\* prescription has a medicine and every medicine a name.
C12_MedicinesValidated ==
    /\ \A u \in Callers :
          /\ PostRxByDoctor(u)
          /\ req.body.doctorId = u
          /\ IsSome(req.body.medicines)
          /\ ~MedicinesOk(Val(req.body.medicines))
          => /\ res.status = 400
             /\ prescriptions = before.prescriptions
    /\ \A i \in DOMAIN prescriptions : MedicinesOk(prescriptions[i].medicines)

\* The three fields a doctor attaches to an appointment
Details(a) == <<a.doctorComment, a.clinicAddress, a.clinicPhone>>

\* C17: doctorComment, clinicAddress and clinicPhone of a stored appointment
\* change only in a request that sets its status to confirmed.
C17_DetailsOnlyOnConfirmation ==
    \A i \in DOMAIN before.appointments :
        Details(appointments[i]) # Details(before.appointments[i]) =>
            /\ req.op = OpPatch
            /\ req.id = i
            /\ req.body.status = Some("confirmed")
            /\ appointments[i].status = "confirmed"

\* C18: the assigned doctor sending confirmed for an appointment that is
\* confirmed is answered 400 InvalidTransition or 200, and status,
\* doctorComment, clinicAddress and clinicPhone stay as they were.
C18_ReconfirmChangesNothing ==
    /\ PatchByAssignedDoctor
    /\ Old.status = "confirmed"
    /\ req.body.status = Some("confirmed")
    => /\ res \in {Response(400, "InvalidTransition"), Response(200, "")}
       /\ New.status = Old.status
       /\ Details(New) = Details(Old)

\* The pattern in words: '+' or a digit, then 5 to 19 characters that are
\* digits, whitespace, hyphens or parentheses
PhoneMatches(p) ==
    /\ Len(p) \in 6..20
    /\ p[1] = "+" \/ p[1] \in Digits
    /\ \A i \in 2..Len(p) :
          p[i] \in Digits \/ p[i] = " " \/ p[i] = "-" \/ p[i] \in {"(", ")"}

\* The handler of PATCH status has read a body with a clinicPhone in it
PatchWithPhone ==
    /\ req.op = OpPatch
    /\ req.body # NoBody
    /\ IsSome(req.body.clinicPhone)
    /\ Len(Val(req.body.clinicPhone)) > 0

\* C19: a PATCH status whose clinicPhone is not empty and does not match the
\* pattern is answered 400 and leaves the store as it was; one whose
\* clinicPhone matches is not answered 400.
C19_PhonePattern ==
    PatchWithPhone =>
        IF PhoneMatches(Val(req.body.clinicPhone))
        THEN res.status # 400
        ELSE res.status = 400 /\ appointments = before.appointments

\* A phone of 21 characters, all of them allowed, is refused
C19_Witness ==
    /\ PatchWithPhone
    /\ OnStored
    /\ Len(Val(req.body.clinicPhone)) = 21
    /\ PhoneOkAnyLength(Val(req.body.clinicPhone))
    /\ res.status = 400
    /\ New = Old

\* The handler of POST /api/appointments has read a body whose date parses
\* and whose other fields are valid
PostWithDate ==
    /\ req.op = OpCreate
    /\ req.body # NoBody
    /\ IsSome(req.body.date)
    /\ TimeSlotOk(req.body.timeSlot)
    /\ ReasonOk(req.body.reason)

\* C20: a POST /api/appointments whose date lies more than 60 seconds before
\* the server's clock is answered 400 and creates nothing; with a later
\* date it is not answered 400.
C20_DateTolerance ==
    PostWithDate =>
        IF Val(req.body.date) < now * 1000 - 60000
        THEN res.status = 400 /\ appointments = before.appointments
        ELSE res.status # 400

\* A date exactly 60 seconds in the past is stored
C20_Witness ==
    /\ PostWithDate
    /\ now > 0
    /\ Val(req.body.date) = now * 1000 - 60000
    /\ res.status = 201
    /\ Created.date = now * 1000 - 60000

\* verifyToken has been asked about a token after its expiry
VerifiedAfterExpiry ==
    /\ verdict # NoVerdict
    /\ held.kind = "jwt"
    /\ held.exp < verdict.at

SameEmail(us) == {i \in DOMAIN us : us[i].email = req.body.email}

\* C13: no two stored users have the same email, and a registration whose
\* email is stored already is answered 400 and creates no user.
C13_EmailsUnique ==
    /\ \A i, j \in DOMAIN users :
          users[i].email = users[j].email => i = j
    /\ req.op = OpRegister /\ registerSchemaParse(req.body)
       /\ SameEmail(before.users) # {}
       => res.status = 400 /\ users = before.users

\* The payload has a weak password, a confirmPassword that differs, or the
\* role doctor without a specialization
RegistrationRefused ==
    \/ ~PasswordOk(req.body.password)
    \/ req.body.password # req.body.confirmPassword
    \/ ~SpecializationOk(req.body.role, req.body.specialization)

\* C14: a registration that fails validation is answered 400 and creates no
\* user.
C14_InvalidRegistrationGets400 ==
    req.op = OpRegister /\ RegistrationRefused =>
        res.status = 400 /\ users = before.users

\* C15: the stored password of a registered user differs from the plaintext;
\* a login with a registered email and the plaintext registered with it is
\* answered 200, with any other password 401.
C15_HashedAndLoginWorks ==
    /\ \A i \in DOMAIN users \ DOMAIN InitialUsers :
          users[i].password # plaintext[i]
    /\ req.op = OpLogin /\ SameEmail(before.users) # {} =>
          IF \E i \in SameEmail(before.users) : plaintext[i] = req.body.password
          THEN res.status = 200
          ELSE res.status = 401

\* The number a digit stands for
DigitValue(c) ==
    CASE c = "0" -> 0 [] c = "1" -> 1 [] c = "2" -> 2 [] c = "3" -> 3
      [] c = "4" -> 4 [] c = "5" -> 5 [] c = "6" -> 6 [] c = "7" -> 7
      [] c = "8" -> 8 [] c = "9" -> 9

\* A 24-hour HH:MM value: two digits, a colon, two digits, the hour from 00
\* to 23 and the minute from 00 to 59
SlotIsHHMM(v) ==
    /\ Len(v) = 5
    /\ v[3] = ":"
    /\ \A i \in {1, 2, 4, 5} : v[i] \in Digits
    /\ 10 * DigitValue(v[1]) + DigitValue(v[2]) \in 0..23
    /\ 10 * DigitValue(v[4]) + DigitValue(v[5]) \in 0..59

\* The handler of POST /api/appointments has read a body
PostWithSlot == req.op = OpCreate /\ req.body # NoBody

\* C21: a POST /api/appointments is answered 201 only when its timeSlot is
\* a 24-hour HH:MM value; with any other timeSlot it is answered 400 and
\* creates no appointment.
C21_TimeSlotPattern ==
    PostWithSlot =>
        /\ res.status = 201 => SlotIsHHMM(req.body.timeSlot)
        /\ ~SlotIsHHMM(req.body.timeSlot) =>
              res.status = 400 /\ appointments = before.appointments

\* 25:00 is refused
C21_Witness ==
    /\ PostWithSlot
    /\ req.body.timeSlot = BadSlot
    /\ IsSome(req.body.date)
    /\ DateOk(Val(req.body.date), now)
    /\ res.status = 400
    /\ appointments = before.appointments

\* The appointments a listing has returned
Listed == {res.listed[k].item : k \in 1..Len(res.listed)}

\* The appointments the store holds
Stored == {appointments[i] : i \in DOMAIN appointments}

ListBy(u) == req.op = OpList /\ AuthenticatedAs(u)

\* C22: GET /api/appointments returns to a doctor exactly the stored
\* appointments with the doctor's id as doctorId, to a patient exactly those
\* with the patient's id as patientId, each of them once, and to no caller
\* an appointment in which the caller is neither patient nor doctor.
C22_ListsOwnAppointments ==
    \A u \in Callers :
        ListBy(u) =>
            /\ res.status = 200
            /\ Cardinality(Listed) = Len(res.listed)
            /\ users[u].role = "doctor" =>
                  Listed = {a \in Stored : a.doctorId = u}
            /\ users[u].role = "patient" =>
                  Listed = {a \in Stored : a.patientId = u}
            /\ \A a \in Listed : a.patientId = u \/ a.doctorId = u

\* Doctor D1, who is also the patient of an appointment with D2, gets the
\* appointment D1 gives and not the one D1 has
C22_Witness ==
    /\ ListBy("D1")
    /\ \E a \in Stored : a.patientId = "D1" /\ a.doctorId = "D2"
    /\ Len(res.listed) = 1
    /\ res.listed[1].item.doctorId = "D1"

\* The handler of a creation has read a body that names a user the store
\* does not hold
NamesUnknownUser ==
    /\ req.op \in {OpCreate, OpRx}
    /\ req.body # NoBody
    /\ \/ req.body.patientId \notin DOMAIN before.users
       \/ req.body.doctorId \notin DOMAIN before.users

\* C23: the patientId and doctorId of every stored appointment and of every
\* stored prescription are ids of stored users, the appointmentId of a
\* prescription that has one is the id of a stored appointment, and a
\* creation that names an unknown user is refused and stores nothing.
C23_ReferentialIntegrity ==
    /\ \A i \in DOMAIN appointments :
          /\ appointments[i].patientId \in DOMAIN users
          /\ appointments[i].doctorId \in DOMAIN users
    /\ \A i \in DOMAIN prescriptions :
          /\ prescriptions[i].patientId \in DOMAIN users
          /\ prescriptions[i].doctorId \in DOMAIN users
          /\ IsSome(prescriptions[i].appointmentId) =>
                Val(prescriptions[i].appointmentId) \in DOMAIN appointments
    /\ NamesUnknownUser =>
          /\ res.status \in {400, 403, 404}
          /\ appointments = before.appointments
          /\ prescriptions = before.prescriptions

\* C24: every prescription a request finds in the store is still there when
\* the request has been answered, with the same doctorId, patientId,
\* appointmentId, medicines and notes; so it is after any sequence of
\* requests.
C24_PrescriptionsImmutable ==
    \A i \in DOMAIN before.prescriptions :
        /\ i \in DOMAIN prescriptions
        /\ prescriptions[i] = before.prescriptions[i]

\* A second prescription has been stored next to the first
C24_Witness ==
    /\ req.op = OpRx
    /\ res.status = 201
    /\ DOMAIN before.prescriptions = {"R1"}
    /\ DOMAIN prescriptions = {"R1", "R2"}
    /\ prescriptions["R2"].medicines # prescriptions["R1"].medicines
    /\ prescriptions["R1"] = before.prescriptions["R1"]

\* The blanks in a text
Blanks(text) == {i \in 1..Len(text) : text[i] = Blank}

\* extractTokenFromHeader has been asked about the header
Extracted == verdict # NoVerdict

\* C26: extractTokenFromHeader returns none for an absent or empty header,
\* the second part of a header made of 'Bearer', one blank and a second
\* part without a blank, the whole header when it has no blank, and none
\* for every other header.
C26_ExtractToken ==
    Extracted =>
        IF ~IsSome(held) \/ Val(held) = <<>>
        THEN verdict.result = None
        ELSE LET text == Val(held) IN
             IF Blanks(text) = {}
             THEN verdict.result = Some(Joined(text))
             ELSE IF Blanks(text) = {2} /\ text[1] = Word("Bearer")
             THEN verdict.result = Some(Joined(SubSeq(text, 3, Len(text))))
             ELSE verdict.result = None

\* 'Basic <token>' yields nothing
C26_Witness ==
    /\ Extracted
    /\ held = Some(<<Word("Basic"), Blank, generateToken(InitialUsers["D1"], 0)>>)
    /\ verdict.result = None

\* The token of the request's header, if it has one
Presented == extractTokenFromHeader(req.authorization)

\* The header has a token, the server signed it and it has not expired
PresentedVerifies ==
    /\ IsSome(Presented)
    /\ Val(Presented).kind = "jwt"
    /\ Val(Presented).signedBy = "JWT_SECRET"
    /\ Val(Presented).exp > now

\* C25: optionalAuthentication sends no error response and calls next()
\* once, whatever the header; req.user is set exactly when the header has a
\* token that verifies, and is then the identity in the token.
C25_OptionalNeverRejects ==
    req.op = OpOptional =>
        /\ res.status = 200
        /\ res.error = ""
        /\ res.nextCalls = 1
        /\ IsSome(res.user) <=> PresentedVerifies
        /\ IsSome(res.user) =>
              /\ Val(res.user).id = Val(Presented).id
              /\ Val(res.user).role = Val(Presented).role
              /\ Val(res.user).email = Val(Presented).email

\* A token of the server that has expired: the request goes on without a
\* user
C25_Witness ==
    /\ req.op = OpOptional
    /\ req.authorization \in ExpiredHeaders
    /\ res.status = 200
    /\ res.nextCalls = 1
    /\ res.user = None

\* The headers with a token that is no JWT or that somebody else signed
MalformedTokenHeaders ==
    {h \in BadHeaders :
        LET token == extractTokenFromHeader(h) IN
        /\ IsSome(token)
        /\ Val(token) # Word("")
        /\ Val(token).kind = "jwt" => Val(token).signedBy # "JWT_SECRET"}

\* C29: authenticateToken answers an expired token of the server with 401
\* and the code TOKEN_EXPIRED, and a token that is malformed or wrongly
\* signed with 401 and the code INVALID_TOKEN_FORMAT.
C29_TokenErrorCodes ==
    req.op \in ProtectedOps =>
        /\ req.authorization \in ExpiredHeaders =>
              res = Response(401, "TOKEN_EXPIRED")
        /\ req.authorization \in MalformedTokenHeaders =>
              res = Response(401, "INVALID_TOKEN_FORMAT")

\* Both requests have been answered, they were for the same appointment,
\* the acknowledge succeeded and the other request set a status
BothCompleted ==
    /\ running.ack.pc = "done"
    /\ running.patch.pc = "done"
    /\ running.ack.id = running.patch.id
    /\ running.ack.res.status = 200
    /\ IsSome(running.patch.passed)

\* C28: when an acknowledge and a status change of the same appointment
\* have both completed, however their steps were interleaved, the status is
\* the one the status change set and patientNotified is true.
C28_AckKeepsNewStatus ==
    BothCompleted =>
        /\ appointments[running.ack.id].status = Val(running.patch.passed)
        /\ appointments[running.ack.id].patientNotified

\* The acknowledge got the appointment while it was pending, the doctor
\* confirmed it, and then the acknowledge wrote: it wrote confirmed
C28_Witness ==
    /\ BothCompleted
    /\ running.patch.res.status = 200
    /\ Val(running.ack.appointment).status = "pending"
    /\ running.patch.passed = Some("confirmed")
    /\ running.ack.passed = Some("confirmed")
    /\ appointments[running.ack.id].status = "confirmed"
    /\ appointments[running.ack.id].patientNotified

\* Writes were started and all of them have returned
WritesFinished == disk.started > 0 /\ disk.writes = <<>>

\* C27: once every write that the creations and status updates started has
\* finished, none has failed and appointments.json holds the appointments
\* of the store with the values they have in the store.
C27_FileMatchesStore ==
    WritesFinished =>
        /\ ~disk.failed
        /\ disk.file = AppointmentValues(appointments)

\* The first effect has run and loading has finished
Loaded == client.mounted /\ ~client.isLoading

\* C30: once loading has finished, user is set only while localStorage
\* holds an auth token; without a token user is null and ProtectedRoute
\* redirects to /login.
C30_UserOnlyWithToken ==
    Loaded =>
        /\ IsSome(client.user) => IsSome(client.token)
        /\ ~IsSome(client.token) =>
              /\ client.user = None
              /\ ProtectedRoute(client) = "Redirect to /login"

====
